---- MODULE Spec2Model ----
(***************************************************************************)
(* Verification model of the exam-paper extraction pipeline:               *)
(*   - HybridPipelineManager (GPU/CPU overflow scheduler),                 *)
(*   - the task store of the web client together with the step controls   *)
(*     of StepItem.vue and the upload panel, driving the pipeline runner.  *)
(* Each part has its own specification; the variables of the other part    *)
(* stay at their initial value.                                            *)
(***************************************************************************)
EXTENDS Naturals, Integers, Sequences, FiniteSets, TLC

VARIABLES
    \* ---- HybridPipelineManager ----
    hybridOcr,      \* EXAMPAPER_HYBRID_OCR, read once by the provider
    cpuSlots,       \* EXAMPAPER_CPU_OCR_SLOTS, read once in __init__
    gpuSem,         \* value of _gpu_sem
    cpuSem,         \* value of _cpu_sem
    cpuPipeline,    \* _cpu_pipeline: "none" or "built"
    cpuCreated,     \* number of CPU pipelines _create_ppstructure has returned
    pc,             \* position of each caller inside acquire()
    lastExit,       \* how the most recent scope was left
    \* ---- task store of the client (useTaskStore) ----
    hasTask,        \* taskId.value !== null
    status,         \* status.value
    mode,           \* mode.value
    cSt,            \* steps.value[k].status
    cErr,           \* steps.value[k].error ("none" for null)
    cArt,           \* steps.value[k].artifact_count
    conn,           \* connection store: "none", "sse" (EventSource) or "poll"
    req,            \* the api call the store is awaiting
    nReq,           \* api calls issued so far
    \* ---- pipeline runner and event channel (server side) ----
    taskMode,       \* mode the task was uploaded with ("none": no task yet)
    sSt,            \* StepState status of each step
    sErr,           \* StepState error of each step
    ws,             \* workspace: completion marker / artifacts of each step
    srvStatus,      \* overall task status
    run,            \* the runner invocation in progress
    queue,          \* events published and not yet delivered to the client
    runKind,        \* entry point of the current or last run
    fullAtStart,    \* history: every marker was present when the run started
    halted,         \* history: step whose failure ended the last run, or -1
    \* ---- page worker pool (prefetch producer and inference consumers) ----
    prefetchDepth,  \* maxsize of prefetch_queue (EXAMPAPER_PREFETCH_SIZE)
    failFast,       \* the fail-fast policy is configured
    nPages,         \* number of page inputs submitted to process_pages
    produced,       \* pages the producer has put on the queue
    sentinels,      \* sentinels the producer has put on the queue
    prefetchQueue,  \* prefetch_queue
    cons,           \* position of each consumer and the unit it holds
    poolGpu,        \* gpu_semaphore taken around predict
    collected,      \* results in the order the consumers finished
    poolState,      \* "running", "returned" or "raised"
    returned,       \* the sequence process_pages has returned
    propagated,     \* page whose error process_pages has raised, or 0
    cancelled,      \* the remaining work has been cancelled
    failOrder,      \* history: pages whose inference failed, in order
    \* ---- event stream: stream_task and the connection store ----
    evLog,          \* id-bearing events stored for the task, in publication order
    nextId,         \* sequence id the next stored event gets
    lastEventId,    \* lastEventId.value of the connection store (0 for null)
    phase,          \* stream_task: "closed", "replay" or "live"
    connX,          \* last_event_id the open connection was made with
    replayBuf,      \* missed_events not yet yielded
    replayed,       \* history: ids replayed on the open connection
    liveQ,          \* events pushed to the subscription and not yet received
    logAtQuery,     \* history: length of the log when get_events_since ran
    nConnects,      \* connections made so far
    \* ---- detect_hardware / calculate_optimal_params (manage.py) ----
    probeAt,        \* position inside the two functions
    config,         \* the dict detect_hardware fills (MB, MB, cores; -1: not set)
    params,         \* the values calculate_optimal_params returns (0: not yet)
    fellBack,       \* history: the fields that got their fallback
    \* ---- connection store (useConnectionStore) and its handlers ----
    generation,       \* generation.value
    connectionStatus, \* connectionStatus.value
    retryCount,       \* retryCount.value
    esGen,            \* currentGen of the EventSource in eventSource.value
    esState,          \* "none" (null), "connecting", "open" or "closed"
    retryTimer,       \* currentGen of the pending retry timer, 0: none
    pollTimer,        \* currentGen of the polling interval, 0: none
    inflight,         \* currentGen of each poll tick awaiting api.getStatus
    cSteps,           \* id of the snapshot the task store's steps show
    cLogs,            \* log entries appended to the logs store
    tstatus,          \* status.value of the task store
    nTerminal,        \* history: onComplete/onError calls of the polling session
    nFallback,        \* history: onFallbackToPolling calls
    srvEnd,           \* what the run ended with: "none", "completed", "failed"
    staleDropped,     \* history: a callback of an earlier generation has run
    userStops,        \* history: calls of disconnect, stopPolling and reset for this task
    taskNo,           \* taskId.value of the task store, as the number of the upload
    idTask,           \* history: the task whose stream lastEventId came from, 0: none
    \* ---- chat store (useChatStore) ----
    sessionId,        \* sessionId.value, 0 for null
    messages,         \* messages.value
    msgCache,         \* messagesCacheBySessionId.value
    aliased,          \* the session whose cache entry is the array in messages.value, 0: none
    chatError,        \* error.value
    isStreaming,      \* isStreaming.value
    abortCtl,         \* activeStreamAbortController.value as the call that made it, 0: null
    sends,            \* the sendMessage calls: position, startLen, requestAccepted, aborted
    nSends,           \* sendMessage calls made
    switchSessionRequestId,
    switchReqs,       \* switchSession calls awaiting their response
    createSessionRequestId,
    createReqs,       \* createSession calls awaiting their response
    loadSessionsRequestId,
    loadReqs,         \* loadSessions calls awaiting their response
    sessions,         \* sessions.value as the request whose list it is, 0: empty
    sessionsLoading,  \* sessionsLoading.value
    sessionsError,    \* sessionsError.value
    staleIgnored,     \* history: the kinds of request a superseded response came for
    \* ---- review store (useWrongStore) ----
    answersByNo,      \* answersByNo.value, "" for a question without an entry
    statusByNo,       \* statusByNo.value
    dirtyAnswers,     \* dirtyAnswers.value
    submitTimeout,    \* the debounce timer is pending
    submitting,       \* submitting.value
    post,             \* the submitAnswers call past its first await: position, batch, payload
    srvAnswers,       \* the answers the server has recorded
    latestAnswer,     \* history: the answer last given to setAnswer, "" when withdrawn
    sentAnswer,       \* history: the answer last put into a request body
    nSets,            \* history: calls made by the user
    \* ---- logs store (useLogsStore) ----
    logs,             \* logs.value as the ids of its entries
    seenIds,          \* seenIds.value
    nAdds,            \* addLog calls made (ids of local entries are -1, -2, ...)
    nServed           \* the highest id the server has published in a log event

hybridVars == <<hybridOcr, cpuSlots, gpuSem, cpuSem, cpuPipeline, cpuCreated, pc, lastExit>>

clientVars == <<hasTask, status, mode, cSt, cErr, cArt, conn, req, nReq>>

serverVars == <<taskMode, sSt, sErr, ws, srvStatus, run, queue, runKind, fullAtStart, halted>>

taskVars == <<clientVars, serverVars>>

poolVars == <<prefetchDepth, failFast, nPages, produced, sentinels, prefetchQueue, cons,
              poolGpu, collected, poolState, returned, propagated, cancelled, failOrder>>

eventVars == <<evLog, nextId, lastEventId, phase, connX, replayBuf, replayed, liveQ,
               logAtQuery, nConnects>>

paramVars == <<probeAt, config, params, fellBack>>

connVars == <<generation, connectionStatus, retryCount, esGen, esState, retryTimer, pollTimer,
              inflight, cSteps, cLogs, tstatus, nTerminal, nFallback, srvEnd, staleDropped,
              userStops, taskNo, idTask>>

chatVars == <<sessionId, messages, msgCache, aliased, chatError, isStreaming, abortCtl, sends,
              nSends, switchSessionRequestId, switchReqs, createSessionRequestId, createReqs,
              loadSessionsRequestId, loadReqs, sessions, sessionsLoading, sessionsError,
              staleIgnored>>

wrongVars == <<answersByNo, statusByNo, dirtyAnswers, submitTimeout, submitting, post,
               srvAnswers, latestAnswer, sentAnswer, nSets>>

logVars == <<logs, seenIds, nAdds, nServed>>

\* The stores of the other views.
storeVars == <<chatVars, wrongVars, logVars>>

\* What the actions of one part leave alone.
nonHybridVars == <<taskVars, poolVars, eventVars, paramVars, connVars, storeVars>>
nonTaskVars == <<hybridVars, poolVars, eventVars, paramVars, connVars, storeVars>>
nonPoolVars == <<hybridVars, taskVars, eventVars, paramVars, connVars, storeVars>>
nonEventVars == <<hybridVars, taskVars, poolVars, paramVars, connVars, storeVars>>
nonParamVars == <<hybridVars, taskVars, poolVars, eventVars, connVars, storeVars>>
nonConnVars == <<hybridVars, taskVars, poolVars, paramVars, storeVars>>

nonChatVars == <<hybridVars, taskVars, poolVars, eventVars, paramVars, connVars,
                 wrongVars, logVars>>
nonWrongVars == <<hybridVars, taskVars, poolVars, eventVars, paramVars, connVars,
                  chatVars, logVars>>
nonLogVars == <<hybridVars, taskVars, poolVars, eventVars, paramVars, connVars,
                chatVars, wrongVars>>

vars == <<hybridVars, taskVars, poolVars, eventVars, paramVars, connVars, storeVars>>

(***************************************************************************)
(* Bounds                                                                  *)
(***************************************************************************)
NumThreads == 3
MaxCpuSlots == 2
MaxQueue == 2
MaxRequests == 3
MaxPages == 3
NumConsumers == 2
MaxPrefetchDepth == 2
MaxGpuWorkers == 2
MaxEvents == 4
MaxConnects == 3
MaxVramSteps == 20
MaxRamSteps == 36
MaxCores == 12
MaxGeneration == 8
MaxInflight == 2
MaxLogs == 1
MaxTasks == 2
MaxStops == 1
NumSessions == 2
MaxSends == 2
MaxChatRequests == 3
NumQuestions == 2
MaxSets == 3
MaxAdds == 1
MaxServed == 101

Threads == 1..NumThreads
Consumers == 1..NumConsumers

(***************************************************************************)
(* Task store: state shared by the definitions below                       *)
(***************************************************************************)
NumSteps == 5
Steps == 0..(NumSteps - 1)

NoReq == [kind |-> "none", idx |-> 0, rte |-> FALSE]
NoRun == [active |-> FALSE, pos |-> 0, rte |-> FALSE]

\* createDefaultSteps()
DefaultSt == [k \in Steps |-> "pending"]
DefaultErr == [k \in Steps |-> "none"]
DefaultArt == [k \in Steps |-> 0]

\* The task store as constructed, no task uploaded, nothing published.
TaskAtRest ==
    /\ hasTask = FALSE
    /\ status = "idle"
    /\ mode = "auto"
    /\ cSt = DefaultSt
    /\ cErr = DefaultErr
    /\ cArt = DefaultArt
    /\ conn = "none"
    /\ req = NoReq
    /\ nReq = 0
    /\ taskMode = "none"
    /\ sSt = DefaultSt
    /\ sErr = DefaultErr
    /\ ws = [k \in Steps |-> FALSE]
    /\ srvStatus = "pending"
    /\ run = NoRun
    /\ queue = << >>
    /\ runKind = "none"
    /\ fullAtStart = FALSE
    /\ halted = -1

\* A consumer that holds no unit.
IdleConsumer == [at |-> "idle", tag |-> 0, page |-> 0]

\* The worker pool before process_pages is called.
PoolAtRest ==
    /\ prefetchDepth = 1
    /\ failFast = FALSE
    /\ nPages = 0
    /\ produced = 0
    /\ sentinels = 0
    /\ prefetchQueue = << >>
    /\ cons = [c \in Consumers |-> IdleConsumer]
    /\ poolGpu = 1
    /\ collected = << >>
    /\ poolState = "idle"
    /\ returned = << >>
    /\ propagated = 0
    /\ cancelled = FALSE
    /\ failOrder = << >>

\* The event stream of a task nothing has been published for.
EventsAtRest ==
    /\ evLog = << >>
    /\ nextId = 1
    /\ lastEventId = 0
    /\ phase = "closed"
    /\ connX = 0
    /\ replayBuf = << >>
    /\ replayed = << >>
    /\ liveQ = << >>
    /\ logAtQuery = 0
    /\ nConnects = 0

\* detect_hardware has not been called.
ParamsAtRest ==
    /\ probeAt = "gpu"
    /\ config = [gpu_vram_mb |-> -1, ram_mb |-> -1, cpu_cores |-> -1]
    /\ params = [det_batch |-> 0, rec_batch |-> 0, prefetch |-> 0, workers |-> 0]
    /\ fellBack = {}

\* The connection store as defined, the task store idle.
ConnAtRest ==
    /\ generation = 0
    /\ connectionStatus = "disconnected"
    /\ retryCount = 0
    /\ esGen = 0 /\ esState = "none"
    /\ retryTimer = 0 /\ pollTimer = 0
    /\ inflight = << >>
    /\ cSteps = 0 /\ cLogs = 0
    /\ tstatus = "idle"
    /\ nTerminal = 0 /\ nFallback = 0
    /\ srvEnd = "none"
    /\ staleDropped = FALSE /\ userStops = 0
    /\ taskNo = 1 /\ idTask = 0

Sessions == 1..NumSessions
Calls == 1..MaxSends
RequestIds == 1..MaxChatRequests

\* A sendMessage call that has not been made.
NoCall == [at |-> "idle", startLen |-> 0, accepted |-> FALSE, aborted |-> FALSE,
           before |-> << >>]

\* The chat store as defined.
ChatAtRest ==
    /\ sessionId = 0
    /\ messages = << >>
    /\ msgCache = [s \in Sessions |-> << >>]
    /\ aliased = 0
    /\ chatError = "none"
    /\ isStreaming = FALSE
    /\ abortCtl = 0
    /\ sends = [c \in Calls |-> NoCall]
    /\ nSends = 0
    /\ switchSessionRequestId = 0 /\ switchReqs = {}
    /\ createSessionRequestId = 0 /\ createReqs = {}
    /\ loadSessionsRequestId = 0 /\ loadReqs = {}
    /\ sessions = 0
    /\ sessionsLoading = FALSE
    /\ sessionsError = "none"
    /\ staleIgnored = {}

Questions == 1..NumQuestions

\* No submitAnswers call is waiting for a response.
NoPost == [at |-> "none", batch |-> {}, payload |-> [q \in Questions |-> ""]]

\* The review store after initReview of an exam nothing was answered in.
WrongAtRest ==
    /\ answersByNo = [q \in Questions |-> ""]
    /\ statusByNo = [q \in Questions |-> "unanswered"]
    /\ dirtyAnswers = {}
    /\ submitTimeout = FALSE
    /\ submitting = FALSE
    /\ post = NoPost
    /\ srvAnswers = [q \in Questions |-> ""]
    /\ latestAnswer = [q \in Questions |-> ""]
    /\ sentAnswer = [q \in Questions |-> ""]
    /\ nSets = 0

\* The logs store as defined.
LogsAtRest ==
    /\ logs = << >>
    /\ seenIds = {}
    /\ nAdds = 0
    /\ nServed = 0

\* The stores of the other views as defined.
StoresAtRest == ChatAtRest /\ WrongAtRest /\ LogsAtRest

(***************************************************************************)
(* HybridPipelineManager                                                   *)
(***************************************************************************)
GpuPermits == 1

\* DEFAULT_ENV_CONFIG: "EXAMPAPER_HYBRID_OCR": "0"
DefaultHybridOcr == "0"

\* Variant: the manager is used whatever the flag says.
UseHybridAlways == TRUE

\* PPStructureProvider.__init__: os.getenv("EXAMPAPER_HYBRID_OCR") == "1"
UseHybrid == hybridOcr = "1"

InGpuScope(t) == pc[t] \in {"gpu1", "gpu3"}
InCpuTier(t)  == pc[t] \in {"cpu_ensure", "cpu_create", "cpu_scope"}

GpuHolders == {t \in Threads : InGpuScope(t)}
CpuHolders == {t \in Threads : InCpuTier(t)}
CpuRunning == {t \in Threads : pc[t] = "cpu_scope"}

\* Semaphore.acquire(blocking=False) / acquire(blocking=True): a permit can be
\* taken only when the counter is positive.
SemCanAcquire(sem) == sem > 0

\* Variant: the permit is given back twice (an explicit release besides the
\* finally clause).
SemReleaseTwice(sem) == sem + 2

\* Semaphore.release()
SemRelease(sem) == sem + 1

\* Variant: the timed acquisition may give up although a permit is free.
SemTimesOutAnytime(sem) == sem >= 0

\* Semaphore.acquire(blocking=True, timeout=...) gives up only while the
\* counter is zero.
SemTimesOut(sem) == sem = 0

\* _ensure_cpu_pipeline: the test `self._cpu_pipeline is None`
NeedsCreate(pipeline) == pipeline = "none"

InitHybrid ==
    /\ hybridOcr \in {"0", "1"}
    /\ cpuSlots \in 1..MaxCpuSlots
    /\ gpuSem = GpuPermits
    /\ cpuSem = cpuSlots
    /\ cpuPipeline = "none"
    /\ cpuCreated = 0
    /\ pc = [t \in Threads |-> "idle"]
    /\ lastExit = "none"
    /\ TaskAtRest
    /\ PoolAtRest
    /\ EventsAtRest
    /\ ParamsAtRest
    /\ ConnAtRest
    /\ StoresAtRest

\* acquire(), tier 1: non-blocking attempt on the GPU semaphore.
Tier1Gpu(t) ==
    /\ pc[t] = "idle"
    /\ SemCanAcquire(gpuSem)
    /\ gpuSem' = gpuSem - 1
    /\ pc' = [pc EXCEPT ![t] = "gpu1"]
    /\ UNCHANGED <<hybridOcr, cpuSlots, cpuSem, cpuPipeline, cpuCreated, lastExit>>
    /\ UNCHANGED nonHybridVars

\* Variant: the caller goes to the CPU semaphore without looking at the GPU.
Tier1BusySkipsAttempt(t) ==
    /\ pc[t] = "idle"
    /\ pc' = [pc EXCEPT ![t] = IF UseHybrid THEN "cpu_wait" ELSE "gpu_wait"]
    /\ UNCHANGED <<hybridOcr, cpuSlots, gpuSem, cpuSem, cpuPipeline, cpuCreated, lastExit>>
    /\ UNCHANGED nonHybridVars

\* acquire(), tier 1 failed: the caller goes on to the CPU semaphore.  Without
\* the manager the caller is on the plain GPU lock and waits for it.
Tier1Busy(t) ==
    /\ pc[t] = "idle"
    /\ ~SemCanAcquire(gpuSem)
    /\ pc' = [pc EXCEPT ![t] = IF UseHybrid THEN "cpu_wait" ELSE "gpu_wait"]
    /\ UNCHANGED <<hybridOcr, cpuSlots, gpuSem, cpuSem, cpuPipeline, cpuCreated, lastExit>>
    /\ UNCHANGED nonHybridVars

\* acquire(), tier 2: the timed acquisition of a CPU permit succeeds.
Tier2Cpu(t) ==
    /\ pc[t] = "cpu_wait"
    /\ SemCanAcquire(cpuSem)
    /\ cpuSem' = cpuSem - 1
    /\ pc' = [pc EXCEPT ![t] = "cpu_ensure"]
    /\ UNCHANGED <<hybridOcr, cpuSlots, gpuSem, cpuPipeline, cpuCreated, lastExit>>
    /\ UNCHANGED nonHybridVars

\* acquire(), tier 2: the timeout elapses without a CPU permit.
Tier2Timeout(t) ==
    /\ pc[t] = "cpu_wait"
    /\ SemTimesOut(cpuSem)
    /\ pc' = [pc EXCEPT ![t] = "gpu_wait"]
    /\ UNCHANGED <<hybridOcr, cpuSlots, gpuSem, cpuSem, cpuPipeline, cpuCreated, lastExit>>
    /\ UNCHANGED nonHybridVars

\* _ensure_cpu_pipeline: read of self._cpu_pipeline.
EnsureCheck(t) ==
    /\ pc[t] = "cpu_ensure"
    /\ pc' = [pc EXCEPT ![t] = IF NeedsCreate(cpuPipeline) THEN "cpu_create" ELSE "cpu_scope"]
    /\ UNCHANGED <<hybridOcr, cpuSlots, gpuSem, cpuSem, cpuPipeline, cpuCreated, lastExit>>
    /\ UNCHANGED nonHybridVars

\* _ensure_cpu_pipeline: _create_ppstructure(device="cpu") returns and the
\* result is stored.
CreateOk(t) ==
    /\ pc[t] = "cpu_create"
    /\ cpuPipeline' = "built"
    /\ cpuCreated' = cpuCreated + 1
    /\ pc' = [pc EXCEPT ![t] = "cpu_scope"]
    /\ UNCHANGED <<hybridOcr, cpuSlots, gpuSem, cpuSem, lastExit>>
    /\ UNCHANGED nonHybridVars

\* Variant: the construction runs before the try block, so that its exception
\* skips the finally clause.
CreateRaiseNoRelease(t) ==
    /\ pc[t] = "cpu_create"
    /\ pc' = [pc EXCEPT ![t] = "idle"]
    /\ lastExit' = "create_raise"
    /\ UNCHANGED <<hybridOcr, cpuSlots, gpuSem, cpuSem, cpuPipeline, cpuCreated>>
    /\ UNCHANGED nonHybridVars

\* _ensure_cpu_pipeline: _create_ppstructure raises; the finally clause of
\* tier 2 releases the CPU permit and the exception leaves acquire().
CreateRaise(t) ==
    /\ pc[t] = "cpu_create"
    /\ cpuSem' = SemRelease(cpuSem)
    /\ pc' = [pc EXCEPT ![t] = "idle"]
    /\ lastExit' = "create_raise"
    /\ UNCHANGED <<hybridOcr, cpuSlots, gpuSem, cpuPipeline, cpuCreated>>
    /\ UNCHANGED nonHybridVars

\* Variant: tier 3 yields the GPU pipeline without waiting for the permit.
Tier3GpuNoAcquire(t) ==
    /\ pc[t] = "gpu_wait"
    /\ gpuSem' = gpuSem - 1
    /\ pc' = [pc EXCEPT ![t] = "gpu3"]
    /\ UNCHANGED <<hybridOcr, cpuSlots, cpuSem, cpuPipeline, cpuCreated, lastExit>>
    /\ UNCHANGED nonHybridVars

\* Variant: tier 3 uses a non-blocking acquisition and reports contention as
\* an error.
Tier3GpuFailFast(t) ==
    /\ pc[t] = "gpu_wait"
    /\ IF gpuSem > 0
       THEN gpuSem' = gpuSem - 1 /\ pc' = [pc EXCEPT ![t] = "gpu3"] /\ lastExit' = lastExit
       ELSE gpuSem' = gpuSem /\ pc' = [pc EXCEPT ![t] = "idle"] /\ lastExit' = "busy_error"
    /\ UNCHANGED <<hybridOcr, cpuSlots, cpuSem, cpuPipeline, cpuCreated>>
    /\ UNCHANGED nonHybridVars

\* acquire(), tier 3: blocking acquisition of the GPU semaphore.
Tier3Gpu(t) ==
    /\ pc[t] = "gpu_wait"
    /\ SemCanAcquire(gpuSem)
    /\ gpuSem' = gpuSem - 1
    /\ pc' = [pc EXCEPT ![t] = "gpu3"]
    /\ UNCHANGED <<hybridOcr, cpuSlots, cpuSem, cpuPipeline, cpuCreated, lastExit>>
    /\ UNCHANGED nonHybridVars

\* The finally clauses of acquire(): the permit of the tier that yielded.
ReleaseScope(t) ==
    IF InGpuScope(t)
    THEN gpuSem' = SemRelease(gpuSem) /\ cpuSem' = cpuSem
    ELSE cpuSem' = SemRelease(cpuSem) /\ gpuSem' = gpuSem

\* The with-body returns normally: the generator resumes after the yield.
BodyReturn(t) ==
    /\ InGpuScope(t) \/ pc[t] = "cpu_scope"
    /\ ReleaseScope(t)
    /\ pc' = [pc EXCEPT ![t] = "idle"]
    /\ lastExit' = "return"
    /\ UNCHANGED <<hybridOcr, cpuSlots, cpuPipeline, cpuCreated>>
    /\ UNCHANGED nonHybridVars

\* The with-body raises: the exception is thrown into the generator at the
\* yield, the finally clause runs, the exception propagates.
BodyRaise(t) ==
    /\ InGpuScope(t) \/ pc[t] = "cpu_scope"
    /\ ReleaseScope(t)
    /\ pc' = [pc EXCEPT ![t] = "idle"]
    /\ lastExit' = "body_raise"
    /\ UNCHANGED <<hybridOcr, cpuSlots, cpuPipeline, cpuCreated>>
    /\ UNCHANGED nonHybridVars

NextHybrid ==
    \E t \in Threads :
        \/ Tier1Gpu(t)
        \/ Tier1Busy(t)
        \/ Tier2Cpu(t)
        \/ Tier2Timeout(t)
        \/ EnsureCheck(t)
        \/ CreateOk(t)
        \/ CreateRaise(t)
        \/ Tier3Gpu(t)
        \/ BodyReturn(t)
        \/ BodyRaise(t)

SpecHybrid == InitHybrid /\ [][NextHybrid]_vars

\* The inference body terminates, a construction attempt terminates, and a
\* caller blocked on the GPU semaphore is eventually served when the permit
\* keeps being released.
FairHybrid ==
    \A t \in Threads :
        /\ WF_vars(BodyReturn(t) \/ BodyRaise(t))
        /\ WF_vars(EnsureCheck(t))
        /\ WF_vars(CreateOk(t) \/ CreateRaise(t))
        /\ SF_vars(Tier3Gpu(t))

SpecHybridFair == InitHybrid /\ [][NextHybrid]_vars /\ FairHybrid

(***************************************************************************)
(* Pipeline runner and event channel: the backend behind the endpoints of  *)
(* README.md, modelled from the specification, sections 4.6, 5 and 6.      *)
(***************************************************************************)
ArtOf(w) == [k \in Steps |-> IF w[k] THEN 1 ELSE 0]

\* A step-snapshot event; `by` records the entry point of the run that
\* published it.
StepEvent(st, err, w, by) ==
    [kind |-> "step", st |-> st, err |-> err, art |-> ArtOf(w), done |-> "none", by |-> by]

\* A done event: "completed" or "error".
DoneEvent(d, by) ==
    [kind |-> "done", st |-> DefaultSt, err |-> DefaultErr, art |-> DefaultArt, done |-> d, by |-> by]

\* Step states the upload response reports: inferred from the artifacts the
\* workspace of this PDF already holds.
InferredSt(w) == [k \in Steps |-> IF w[k] THEN "completed" ELSE "pending"]

AllDone(st) == \A k \in Steps : st[k] \in {"completed", "skipped"}

\* A run request is taken only when no run of the task is in progress
\* (invocations of one task are mutually exclusive) and the event can be
\* published.
CanAccept == ~run.active /\ Len(queue) < MaxQueue

\* PipelineRunner.run(task, start_step, run_to_end): the starting step's
\* status becomes running.
AcceptRun(k, rte, kind) ==
    /\ CanAccept
    /\ run' = [active |-> TRUE, pos |-> k, rte |-> rte]
    /\ sSt' = [sSt EXCEPT ![k] = "running"]
    /\ sErr' = [sErr EXCEPT ![k] = "none"]
    /\ srvStatus' = "processing"
    /\ runKind' = kind
    /\ fullAtStart' = \A j \in Steps : ws[j]
    /\ halted' = -1
    /\ queue' = Append(queue, StepEvent(sSt', sErr', ws, kind))
    /\ UNCHANGED <<ws, taskMode>>

\* Status a step gets when its completion marker is found in the workspace.
MarkerStatusCompleted == "completed"

MarkerStatus == "skipped"

\* The completion marker of the current step is present: the step is marked
\* skipped without being executed.
RunnerSkip ==
    /\ run.active /\ sSt[run.pos] = "running" /\ ws[run.pos]
    /\ Len(queue) < MaxQueue
    /\ sSt' = [sSt EXCEPT ![run.pos] = MarkerStatus]
    /\ queue' = Append(queue, StepEvent(sSt', sErr, ws, runKind))
    /\ UNCHANGED <<taskMode, sErr, ws, srvStatus, run, runKind, fullAtStart, halted>>
    /\ UNCHANGED clientVars
    /\ UNCHANGED nonTaskVars

\* The current step executes and writes its artifacts.
RunnerSucceed ==
    /\ run.active /\ sSt[run.pos] = "running" /\ ~ws[run.pos]
    /\ Len(queue) < MaxQueue
    /\ sSt' = [sSt EXCEPT ![run.pos] = "completed"]
    /\ ws' = [ws EXCEPT ![run.pos] = TRUE]
    /\ queue' = Append(queue, StepEvent(sSt', sErr, ws', runKind))
    /\ UNCHANGED <<taskMode, sErr, srvStatus, run, runKind, fullAtStart, halted>>
    /\ UNCHANGED clientVars
    /\ UNCHANGED nonTaskVars

\* The current step fails: its status is failed with the captured error.
RunnerFail ==
    /\ run.active /\ sSt[run.pos] = "running" /\ ~ws[run.pos]
    /\ Len(queue) < MaxQueue
    /\ sSt' = [sSt EXCEPT ![run.pos] = "failed"]
    /\ sErr' = [sErr EXCEPT ![run.pos] = "E"]
    /\ queue' = Append(queue, StepEvent(sSt', sErr', ws, runKind))
    /\ UNCHANGED <<taskMode, ws, srvStatus, run, runKind, fullAtStart, halted>>
    /\ UNCHANGED clientVars
    /\ UNCHANGED nonTaskVars

\* The run goes on to the next step only after a completed or skipped step of
\* a run-to-end invocation.
RunContinues ==
    /\ sSt[run.pos] \in {"completed", "skipped"}
    /\ run.rte
    /\ run.pos < NumSteps - 1

RunnerAdvance ==
    /\ run.active /\ sSt[run.pos] # "running"
    /\ RunContinues
    /\ Len(queue) < MaxQueue
    /\ run' = [run EXCEPT !.pos = run.pos + 1]
    /\ sSt' = [sSt EXCEPT ![run.pos + 1] = "running"]
    /\ sErr' = [sErr EXCEPT ![run.pos + 1] = "none"]
    /\ queue' = Append(queue, StepEvent(sSt', sErr', ws, runKind))
    /\ UNCHANGED <<taskMode, ws, srvStatus, runKind, fullAtStart, halted>>
    /\ UNCHANGED clientVars
    /\ UNCHANGED nonTaskVars

\* The run ends: after a failure, after the single step of a manual start, or
\* after the last step.  A done event is published.
RunnerEnd ==
    /\ run.active /\ sSt[run.pos] # "running"
    /\ ~RunContinues
    /\ Len(queue) < MaxQueue
    /\ run' = NoRun
    /\ srvStatus' = IF sSt[run.pos] = "failed" THEN "failed"
                    ELSE IF AllDone(sSt) THEN "completed" ELSE "pending"
    /\ halted' = IF sSt[run.pos] = "failed" THEN run.pos ELSE -1
    /\ queue' = Append(queue, DoneEvent(IF sSt[run.pos] = "failed" THEN "error" ELSE "completed", runKind))
    /\ UNCHANGED <<taskMode, sSt, sErr, ws, runKind, fullAtStart>>
    /\ UNCHANGED clientVars
    /\ UNCHANGED nonTaskVars

\* POST /api/tasks/{task_id}/restart/{from_step}: the steps from from_step on
\* are reset and their artifacts removed.
RestartReset(k) ==
    /\ ~run.active
    /\ sSt' = [j \in Steps |-> IF j >= k THEN "pending" ELSE sSt[j]]
    /\ sErr' = [j \in Steps |-> IF j >= k THEN "none" ELSE sErr[j]]
    /\ ws' = [j \in Steps |-> IF j >= k THEN FALSE ELSE ws[j]]
    /\ srvStatus' = "pending"
    /\ fullAtStart' = FALSE
    /\ halted' = -1
    /\ UNCHANGED <<taskMode, run, queue, runKind>>

(***************************************************************************)
(* Task store of the client (useTaskStore) and its controls                *)
(***************************************************************************)
\* isBusy
IsBusy == status \in {"uploading", "processing"}

\* steps.value.some(s => s.status === 'running')
HasRunning(st) == \E k \in Steps : st[k] = "running"

\* canStartStep(step)
CanStartStep(k) ==
    /\ ~IsBusy
    /\ cSt[k] = "pending"
    /\ ~HasRunning(cSt)
    /\ (mode # "manual" /\ k > 0) => cSt[k - 1] = "completed"

\* Variant: the step controls are shown in automatic mode as well.
StepControlsVisibleAnyMode == hasTask

\* StepItem.vue: v-if="store.mode === 'manual' && store.taskId"
StepControlsVisible == mode = "manual" /\ hasTask

\* StepItem.vue: the retry buttons, v-if="displayStatus === 'failed'"
RetryOffered(k) == cSt[k] = "failed"

\* StepItem.vue: the restart button, v-if="displayStatus === 'completed'"
RestartOffered(k) == cSt[k] = "completed"

\* Variant: the error of the snapshot is dropped.
SnapshotErrDropped(e) == [k \in Steps |-> "none"]

\* updateSteps: steps.value[idx].error = s.error || null
SnapshotErr(e) == e.err

\* updateSteps(stepsData)
UpdateSteps(e) ==
    /\ cSt' = e.st
    /\ cErr' = SnapshotErr(e)
    /\ cArt' = e.art

\* Mode selector of the upload panel: store.mode = 'auto' | 'manual'
SetMode(m) ==
    /\ mode # m
    /\ mode' = m
    /\ UNCHANGED <<hasTask, status, cSt, cErr, cArt, conn, req, nReq>>
    /\ UNCHANGED serverVars
    /\ UNCHANGED nonTaskVars

\* uploadFile(selectedFile, selectedMode) up to `await api.upload`
UploadBegin ==
    /\ ~hasTask /\ req = NoReq
    /\ status' = "uploading"
    /\ req' = [kind |-> "upload", idx |-> 0, rte |-> FALSE]
    /\ taskMode' = mode
    /\ UNCHANGED <<hasTask, mode, cSt, cErr, cArt, conn, nReq>>
    /\ UNCHANGED <<sSt, sErr, ws, srvStatus, run, queue, runKind, fullAtStart, halted>>
    /\ UNCHANGED nonTaskVars

\* uploadFile after the response: the task id and the inferred step states
\* are stored; automatic mode goes on into startProcessing() up to
\* `await api.startProcess`.
UploadOk ==
    /\ req.kind = "upload"
    /\ sSt' = InferredSt(ws)
    /\ sErr' = DefaultErr
    /\ hasTask' = TRUE
    /\ cSt' = sSt'
    /\ cArt' = ArtOf(ws)
    /\ IF taskMode = "auto"
       THEN /\ status' = "processing"
            /\ req' = [kind |-> "process", idx |-> 0, rte |-> TRUE]
            /\ nReq' = nReq + 1
       ELSE /\ status' = "paused"
            /\ req' = NoReq
            /\ nReq' = nReq
    /\ UNCHANGED <<mode, cErr, conn>>
    /\ UNCHANGED <<taskMode, ws, srvStatus, run, queue, runKind, fullAtStart, halted>>
    /\ UNCHANGED nonTaskVars

\* uploadFile: the catch branch.
UploadFail ==
    /\ req.kind = "upload"
    /\ status' = "error"
    /\ req' = NoReq
    /\ UNCHANGED <<hasTask, mode, cSt, cErr, cArt, conn, nReq>>
    /\ UNCHANGED serverVars
    /\ UNCHANGED nonTaskVars

\* The button of automatic mode: startProcessing() up to the await.
ClickStartProcessing ==
    /\ mode = "auto" /\ taskMode # "none" /\ ~IsBusy
    /\ hasTask /\ req = NoReq /\ nReq < MaxRequests
    /\ status' = "processing"
    /\ req' = [kind |-> "process", idx |-> 0, rte |-> TRUE]
    /\ nReq' = nReq + 1
    /\ UNCHANGED <<hasTask, mode, cSt, cErr, cArt, conn>>
    /\ UNCHANGED serverVars
    /\ UNCHANGED nonTaskVars

\* POST /api/process is taken (only for a task uploaded in automatic mode):
\* the run starts at step 0 and runs to the end; startProcessing goes on
\* to connectEventSource.
ProcessOk ==
    /\ req.kind = "process"
    /\ taskMode = "auto"
    /\ AcceptRun(0, TRUE, "auto")
    /\ conn' = "sse"
    /\ req' = NoReq
    /\ UNCHANGED <<hasTask, status, mode, cSt, cErr, cArt, nReq>>
    /\ UNCHANGED nonTaskVars

\* startProcessing: the catch branch falls back to polling.
ProcessFail ==
    /\ req.kind = "process"
    /\ conn' = "poll"
    /\ req' = NoReq
    /\ UNCHANGED <<hasTask, status, mode, cSt, cErr, cArt, nReq>>
    /\ UNCHANGED serverVars
    /\ UNCHANGED nonTaskVars

\* Variant: every start asks for a run to the end.
RunToEndParamAlways(rte) == TRUE

\* api.startStep: params: { run_to_end: runToEnd }
RunToEndParam(rte) == rte

\* startStep: steps.value[stepIndex].status = 'running'
StartStepStatus(k) == [cSt EXCEPT ![k] = "running"]

\* startStep(stepIndex, runToEnd) up to `await api.startStep`
StartStepBegin(k, rte) ==
    /\ status' = "processing"
    /\ cSt' = StartStepStatus(k)
    /\ req' = [kind |-> "start", idx |-> k, rte |-> RunToEndParam(rte)]
    /\ UNCHANGED <<hasTask, mode, cErr, cArt, conn>>

\* StepItem.vue: the start and retry buttons of a step.
ClickStartStep(k, rte) ==
    /\ StepControlsVisible
    /\ CanStartStep(k) \/ RetryOffered(k)
    /\ req = NoReq /\ nReq < MaxRequests
    /\ StartStepBegin(k, rte)
    /\ nReq' = nReq + 1
    /\ UNCHANGED serverVars
    /\ UNCHANGED nonTaskVars

\* POST /api/tasks/{id}/steps/{k}/start is taken; startStep goes on to
\* connectEventSource.
StartOk ==
    /\ req.kind = "start"
    /\ AcceptRun(req.idx, req.rte, "manual")
    /\ conn' = "sse"
    /\ req' = NoReq
    /\ UNCHANGED <<hasTask, status, mode, cSt, cErr, cArt, nReq>>
    /\ UNCHANGED nonTaskVars

\* startStep: the catch branch.
StartFail ==
    /\ req.kind = "start"
    /\ cSt' = [cSt EXCEPT ![req.idx] = "failed"]
    /\ status' = "paused"
    /\ req' = NoReq
    /\ UNCHANGED <<hasTask, mode, cErr, cArt, conn, nReq>>
    /\ UNCHANGED serverVars
    /\ UNCHANGED nonTaskVars

\* StepItem.vue: the restart button; restartFromStep up to the await.
ClickRestart(k) ==
    /\ StepControlsVisible
    /\ RestartOffered(k)
    /\ req = NoReq /\ nReq < MaxRequests
    /\ req' = [kind |-> "restart", idx |-> k, rte |-> FALSE]
    /\ nReq' = nReq + 1
    /\ UNCHANGED <<hasTask, status, mode, cSt, cErr, cArt, conn>>
    /\ UNCHANGED serverVars
    /\ UNCHANGED nonTaskVars

\* restartFromStep after the response: every step of the response is
\* applied; manual mode goes on into startStep(stepIndex).
RestartOk ==
    /\ req.kind = "restart"
    /\ RestartReset(req.idx)
    /\ IF mode = "manual"
       THEN /\ status' = "processing"
            /\ cSt' = [sSt' EXCEPT ![req.idx] = "running"]
            /\ req' = [kind |-> "start", idx |-> req.idx, rte |-> FALSE]
       ELSE /\ status' = status
            /\ cSt' = sSt'
            /\ req' = NoReq
    /\ cErr' = DefaultErr
    /\ cArt' = DefaultArt
    /\ UNCHANGED <<hasTask, mode, conn, nReq>>
    /\ UNCHANGED nonTaskVars

\* restartFromStep: the catch branch only logs.
RestartFail ==
    /\ req.kind = "restart"
    /\ req' = NoReq
    /\ UNCHANGED <<hasTask, status, mode, cSt, cErr, cArt, conn, nReq>>
    /\ UNCHANGED serverVars
    /\ UNCHANGED nonTaskVars

\* The 'step' listener of the event source: handlers.onStep
SseStep ==
    /\ conn = "sse" /\ queue # << >> /\ Head(queue).kind = "step"
    /\ UpdateSteps(Head(queue))
    /\ queue' = Tail(queue)
    /\ UNCHANGED <<hasTask, status, mode, conn, req, nReq>>
    /\ UNCHANGED <<taskMode, sSt, sErr, ws, srvStatus, run, runKind, fullAtStart, halted>>
    /\ UNCHANGED nonTaskVars

\* The 'done' listener: the stream is closed, handlers.onDone
SseDone ==
    /\ conn = "sse" /\ queue # << >> /\ Head(queue).kind = "done"
    /\ conn' = "none"
    /\ status' = IF Head(queue).done = "completed" THEN "completed" ELSE "error"
    /\ queue' = Tail(queue)
    /\ UNCHANGED <<hasTask, mode, cSt, cErr, cArt, req, nReq>>
    /\ UNCHANGED <<taskMode, sSt, sErr, ws, srvStatus, run, runKind, fullAtStart, halted>>
    /\ UNCHANGED nonTaskVars

\* One tick of the polling interval: handlers.onStatus, then onComplete or
\* onError.
PollTick ==
    /\ conn = "poll"
    /\ UpdateSteps(StepEvent(sSt, sErr, ws, runKind))
    /\ IF srvStatus = "pending" /\ mode = "manual" /\ ~HasRunning(sSt)
       THEN status' = "paused" /\ conn' = "none"
       ELSE IF srvStatus = "completed"
       THEN status' = "completed" /\ conn' = "none"
       ELSE IF srvStatus = "failed"
       THEN status' = "error" /\ conn' = "none"
       ELSE status' = status /\ conn' = conn
    /\ <<cSt', cErr', cArt', status', conn'>> # <<cSt, cErr, cArt, status, conn>>
    /\ UNCHANGED <<hasTask, mode, req, nReq>>
    /\ UNCHANGED serverVars
    /\ UNCHANGED nonTaskVars

InitTask ==
    /\ hybridOcr = DefaultHybridOcr
    /\ cpuSlots = 1
    /\ gpuSem = GpuPermits
    /\ cpuSem = cpuSlots
    /\ cpuPipeline = "none"
    /\ cpuCreated = 0
    /\ pc = [t \in Threads |-> "idle"]
    /\ lastExit = "none"
    /\ hasTask = FALSE
    /\ status = "idle"
    /\ mode = "auto"
    /\ cSt = DefaultSt
    /\ cErr = DefaultErr
    /\ cArt = DefaultArt
    /\ conn = "none"
    /\ req = NoReq
    /\ nReq = 0
    /\ taskMode = "none"
    /\ sSt = DefaultSt
    /\ sErr = DefaultErr
    /\ ws \in {[k \in Steps |-> FALSE], [k \in Steps |-> TRUE]}
    /\ srvStatus = "pending"
    /\ run = NoRun
    /\ queue = << >>
    /\ runKind = "none"
    /\ fullAtStart = FALSE
    /\ halted = -1
    /\ PoolAtRest
    /\ EventsAtRest
    /\ ParamsAtRest
    /\ ConnAtRest
    /\ StoresAtRest

NextTask ==
    \/ \E m \in {"auto", "manual"} : SetMode(m)
    \/ UploadBegin
    \/ UploadOk
    \/ UploadFail
    \/ ClickStartProcessing
    \/ ProcessOk
    \/ ProcessFail
    \/ \E k \in Steps, rte \in BOOLEAN : ClickStartStep(k, rte)
    \/ StartOk
    \/ StartFail
    \/ \E k \in Steps : ClickRestart(k)
    \/ RestartOk
    \/ RestartFail
    \/ SseStep
    \/ SseDone
    \/ PollTick
    \/ RunnerSkip
    \/ RunnerSucceed
    \/ RunnerFail
    \/ RunnerAdvance
    \/ RunnerEnd

SpecTask == InitTask /\ [][NextTask]_vars

(***************************************************************************)
(* Properties of HybridPipelineManager                                     *)
(***************************************************************************)
AllReturned == \A t \in Threads : pc[t] = "idle"

\* The device kind acquire() yields to the caller at its position.
DeviceKind(t) ==
    IF InGpuScope(t) THEN "gpu" ELSE IF pc[t] = "cpu_scope" THEN "cpu" ELSE "none"

\* C1: under any interleaving of the three tiers, at most one caller is inside
\* a scope that was yielded the GPU pipeline.
C1_GpuMutualExclusion == Cardinality({t \in Threads : DeviceKind(t) = "gpu"}) <= 1

\* C1 witness: one caller holds the GPU through tier 3 while another caller
\* waits for it.
C1_Witness == \E t, u \in Threads : pc[t] = "gpu3" /\ pc[u] = "gpu_wait"

\* C2: every permit taken is given back exactly once when the scope is left
\* (free permits plus holders always add up to the configured count), so that
\* once all callers have returned the GPU lock has 1 free permit and the CPU
\* lock has N, also after a raising body or a raising CPU construction.
C2_PermitsReleasedOnce ==
    /\ gpuSem + Cardinality(GpuHolders) = GpuPermits
    /\ cpuSem + Cardinality(CpuHolders) = cpuSlots
    /\ AllReturned => gpuSem = GpuPermits /\ cpuSem = cpuSlots

\* C2 witness: all callers have returned and the last scope was left by the
\* CPU construction raising.
C2_Witness == AllReturned /\ lastExit = "create_raise"

C4_RoutedToCpuWhenGpuBusy ==
    [][\A t \in Threads :
        /\ (pc[t] = "cpu_wait" /\ cpuSem > 0 /\ pc'[t] # pc[t]) => pc'[t] = "cpu_ensure"
        /\ InCpuTier(t) => pc'[t] \in {"cpu_ensure", "cpu_create", "cpu_scope", "idle"}
        /\ (InCpuTier(t) /\ DeviceKind(t)' # "none") => DeviceKind(t)' = "cpu"]_vars

\* C4 witness: the GPU permit is held and another request runs on the CPU.
C4_Witness == \E t \in Threads : gpuSem = 0 /\ DeviceKind(t) = "cpu"

\* C5: at most one CPU pipeline is ever constructed.
C5_AtMostOneCpuPipeline == cpuCreated <= 1

\* C6: the callers running on the CPU pipeline never number more than the
\* configured CPU slots, and on either lock the permits held stay between 0
\* and the lock's configured maximum.
C6_PermitsWithinMaximum ==
    /\ Cardinality(CpuRunning) <= cpuSlots
    /\ GpuPermits - gpuSem \in 0..GpuPermits
    /\ cpuSlots - cpuSem \in 0..cpuSlots

\* C6 witness: more than one CPU slot is configured and all of them run
\* inference at once.
C6_Witness == cpuSlots > 1 /\ Cardinality(CpuRunning) = cpuSlots

(***************************************************************************)
(* Properties of the step sequencing                                       *)
(***************************************************************************)
Done == {"completed", "skipped"}

\* Step k changes to running in the store / in the runner's StepState.
BecomesRunningC(k) == cSt[k] # "running" /\ cSt'[k] = "running"
BecomesRunningS(k) == sSt[k] # "running" /\ sSt'[k] = "running"

\* The store itself starts step k: startStep(k, ...) has just issued its call.
UserStarts(k) == req' # req /\ req'.kind = "start" /\ req'.idx = k

\* The store applies a snapshot: an event of the stream, or a poll response.
SseDelivers == conn = "sse" /\ queue # << >> /\ queue' = Tail(queue) /\ Head(queue).kind = "step"
PollDelivers == conn = "poll" /\ req' = req /\ queue' = queue /\ mode' = mode
                    /\ <<cSt', cErr', cArt', status', conn'>> # <<cSt, cErr, cArt, status, conn>>

\* Entry point of the run whose snapshot is being applied ("none": no snapshot).
SnapshotBy == IF SseDelivers THEN Head(queue).by ELSE IF PollDelivers THEN runKind ELSE "none"

\* C7: in automatic mode a step enters 'running' only when every earlier
\* step is completed or skipped: in the StepState of a run started through
\* the automatic entry point, and in the store while its mode is 'auto',
\* whether the store starts the step itself or applies a snapshot of such a
\* run.
C7_AutoRunningOnlyAfterEarlierDone ==
    [][\A k \in Steps :
        /\ (runKind' = "auto" /\ BecomesRunningS(k)) => \A j \in 0..(k - 1) : sSt'[j] \in Done
        /\ (mode = "auto" /\ BecomesRunningC(k) /\ (UserStarts(k) \/ SnapshotBy = "auto"))
              => \A j \in 0..(k - 1) : cSt'[j] \in Done]_vars

\* C7 witness: an automatic run has reached step 2 and the store, in
\* automatic mode, shows it running.
C7_Witness == mode = "auto" /\ runKind = "auto" /\ run.active /\ run.pos = 2 /\ cSt[2] = "running"

\* C8: at most one step of the task is 'running' at any time, in the store
\* and in the runner's StepState.
C8_AtMostOneRunning ==
    /\ Cardinality({k \in Steps : cSt[k] = "running"}) <= 1
    /\ Cardinality({k \in Steps : sSt[k] = "running"}) <= 1

\* A snapshot with a failed step is recorded as it is: status failed and the
\* error of the snapshot.
FailureRecorded ==
    /\ SseDelivers => \A k \in Steps : Head(queue).st[k] = "failed"
                            => cSt'[k] = "failed" /\ cErr'[k] = Head(queue).err[k]
    /\ PollDelivers => \A k \in Steps : sSt[k] = "failed"
                            => cSt'[k] = "failed" /\ cErr'[k] = sErr[k]

\* C9 as stated: a failed step is recorded as failed with its error, and
\* while a step is recorded failed no later step becomes running unless a
\* restart has been requested.
C9_NoLaterStepUntilRestart ==
    [][/\ FailureRecorded
       /\ \A k, j \in Steps :
            (k < j /\ cSt[k] = "failed" /\ cErr[k] # "none" /\ BecomesRunningC(j))
                => req.kind = "restart"]_vars

\* C9 amended: a step that fails during a run is failed with the error in the
\* runner's StepState and is recorded so by the store; the run that failed at
\* step k makes no later step running, and no step after k becomes running
\* until the store has issued a new request that is taken (start of a step,
\* process or restart); the store shows a step running only when it starts
\* the step itself or the applied snapshot says so.
C9_HaltsUntilExplicitRequest ==
    /\ [](\A k \in Steps : sSt[k] = "failed" => sErr[k] = "E")
    /\ [](halted >= 0 => ~run.active /\ sSt[halted] = "failed" /\ ~HasRunning(sSt))
    /\ [][/\ FailureRecorded
          /\ \A j \in Steps :
                (halted >= 0 /\ j > halted /\ BecomesRunningS(j))
                    => req.kind \in {"start", "process"} /\ req' = NoReq
          /\ \A j \in Steps :
                BecomesRunningC(j) =>
                    \/ UserStarts(j)
                    \/ SseDelivers /\ Head(queue).st[j] = "running"
                    \/ PollDelivers /\ sSt[j] = "running"]_vars

\* C9 witness: a run has failed at a step that is not the last one, and the
\* store shows the failure with its error after the done event.
C9_Witness ==
    \E k \in Steps : /\ k < NumSteps - 1 /\ halted = k
                     /\ cSt[k] = "failed" /\ cErr[k] = "E" /\ status = "error"

\* C10: a run from step 0 that starts when every step's artifacts are
\* already in the workspace executes no step: a step whose marker is present
\* leaves 'running' only as 'skipped' with the workspace unchanged, and when
\* the run is over every step is 'skipped', which is what the store shows
\* once the done event has arrived.
C10_SecondRunSkipsAll ==
    /\ [][\A k \in Steps : (ws[k] /\ run.active /\ sSt[k] = "running" /\ sSt'[k] # "running")
                => sSt'[k] = "skipped" /\ ws' = ws]_vars
    /\ []((fullAtStart /\ runKind = "auto" /\ ~run.active /\ srvStatus = "completed")
            => \A k \in Steps : sSt[k] = "skipped" /\ ws[k])
    /\ []((fullAtStart /\ runKind = "auto" /\ ~run.active /\ srvStatus = "completed"
             /\ queue = << >> /\ conn = "none" /\ status = "completed")
            => \A k \in Steps : cSt[k] = "skipped" /\ cArt[k] = 1)

\* C10 witness: the store has asked for a second run, which found every
\* marker and has ended with every step skipped.
C10_Witness ==
    /\ nReq >= 2 /\ fullAtStart /\ runKind = "auto" /\ ~run.active
    /\ status = "completed" /\ \A k \in Steps : cSt[k] = "skipped"

(***************************************************************************)
(* Properties of restart, retry and single-step runs                       *)
(***************************************************************************)
\* restartFromStep has received the response of the restart call for step k.
RestartApplied(k) == req.kind = "restart" /\ req.idx = k /\ RestartOk

\* C11: restarting from step 2 leaves the recorded status and artifacts of
\* steps 0 and 1 as they were, in the task record and in the store, and
\* resets steps 2, 3 and 4 (status pending, no artifacts).
C11_RestartScoped ==
    [][RestartApplied(2) =>
        /\ \A j \in 0..1 : /\ sSt'[j] = sSt[j] /\ ws'[j] = ws[j]
                           /\ cSt'[j] = cSt[j] /\ cArt'[j] = cArt[j]
        /\ \A j \in 2..(NumSteps - 1) : /\ sSt'[j] = "pending" /\ ~ws'[j]
                                        /\ cArt'[j] = 0
                                        /\ cSt'[j] \in {"pending", "running"}]_vars

\* The start call for step k is taken by the backend.
StartTaken(k) == req.kind = "start" /\ req.idx = k /\ ~run.active /\ run'.active

\* C12: when a restart is applied to a step k that is failed in the task
\* record, the recorded status and artifacts of every other step, earlier
\* or later, stay as they are, in the task record and in the store.
C12_RestartOfFailedScoped ==
    [][\A k \in Steps :
        (req.kind = "restart" /\ req.idx = k /\ sSt[k] = "failed" /\ RestartOk) =>
            \A j \in Steps \ {k} :
                /\ sSt'[j] = sSt[j] /\ ws'[j] = ws[j]
                /\ cSt'[j] = cSt[j] /\ cArt'[j] = cArt[j]]_vars

\* C13: a start with run_to_end = false is sent with that flag, the run it
\* starts has it, and such a run never moves to another step: no step other
\* than the start step becomes running while it is active.
C13_SingleStepRun ==
    [][/\ \A k \in Steps : ClickStartStep(k, FALSE) => ~req'.rte
       /\ \A k \in Steps : StartTaken(k) => run'.rte = req.rte /\ run'.pos = k
       /\ (run.active /\ ~run.rte) =>
              /\ \A j \in Steps : ~BecomesRunningS(j)
              /\ run'.active => run'.pos = run.pos]_vars

\* C13 witness: a single-step run of step 0 is over: step 0 is completed,
\* step 1 is still pending and nothing is running.
C13_Witness ==
    /\ runKind = "manual" /\ ~run.active /\ halted = -1 /\ nReq = 1
    /\ sSt[0] = "completed" /\ sSt[1] = "pending" /\ cSt[0] = "completed" /\ cSt[1] = "pending"

(***************************************************************************)
(* Page worker pool: the prefetch producer and the inference consumers of  *)
(* the optimisation plan; result collection and the failure policy are     *)
(* modelled from the specification, section 4.5.                           *)
(***************************************************************************)
Pages == 1..nPages

\* Variant: the unit does not identify its page.
UnitOfUntagged(i) == [tag |-> 1, page |-> i]

\* producer: prefetch_queue.put((img_path, img)); `page` is the page the
\* image really is, `tag` what the unit says.
UnitOf(i) == [tag |-> i, page |-> i]

\* The sentinel that ends a consumer.
Sentinel == [tag |-> 0, page |-> 0]

\* Variant: the queue has no bound.
QueueHasRoomAlways(q) == TRUE

\* Queue(maxsize=prefetch_size): put blocks while the queue is full.
QueueHasRoom(q) == Len(q) < prefetchDepth

\* Variant: any failure aborts the batch.
AbortsOnFailureAlways == TRUE

\* A page failure aborts the batch only under the fail-fast policy.
AbortsOnFailure == failFast

\* Variant: the error raised is the one of the latest failure.
LatestError(prev, page) == page

\* The error kept for propagation is the first one.
FirstError(prev, page) == IF prev = 0 THEN page ELSE prev

\* The results with tag i, in the order they were collected.
ByTag(i) == SelectSeq(collected, LAMBDA r : r.tag = i)

RECURSIVE ReorderFrom(_)
ReorderFrom(i) == IF i > nPages THEN << >> ELSE ByTag(i) \o ReorderFrom(i + 1)

\* Variant: the results are returned as they were collected.
ReturnOrderAsCollected == collected

\* The results are put back in the order of their tags.
ReturnOrder == ReorderFrom(1)

\* The other parts as constructed.
HybridAtRest ==
    /\ hybridOcr = DefaultHybridOcr
    /\ cpuSlots = 1
    /\ gpuSem = GpuPermits
    /\ cpuSem = cpuSlots
    /\ cpuPipeline = "none"
    /\ cpuCreated = 0
    /\ pc = [t \in Threads |-> "idle"]
    /\ lastExit = "none"

\* process_pages(pages) has been called.
InitPool ==
    /\ prefetchDepth \in 1..MaxPrefetchDepth
    /\ failFast \in BOOLEAN
    /\ nPages \in 1..MaxPages
    /\ produced = 0
    /\ sentinels = 0
    /\ prefetchQueue = << >>
    /\ cons = [c \in Consumers |-> IdleConsumer]
    /\ poolGpu \in 1..MaxGpuWorkers
    /\ collected = << >>
    /\ poolState = "running"
    /\ returned = << >>
    /\ propagated = 0
    /\ cancelled = FALSE
    /\ failOrder = << >>
    /\ HybridAtRest
    /\ TaskAtRest
    /\ EventsAtRest
    /\ ParamsAtRest
    /\ ConnAtRest
    /\ StoresAtRest

\* producer: the next image is loaded and put on the queue.
Produce ==
    /\ poolState = "running" /\ ~cancelled
    /\ produced < nPages
    /\ QueueHasRoom(prefetchQueue)
    /\ prefetchQueue' = Append(prefetchQueue, UnitOf(produced + 1))
    /\ produced' = produced + 1
    /\ UNCHANGED <<prefetchDepth, failFast, nPages, sentinels, cons, poolGpu, collected,
                   poolState, returned, propagated, cancelled, failOrder>>
    /\ UNCHANGED nonPoolVars

\* Variant: the producer puts a single sentinel.
ProduceSentinelOnce ==
    /\ poolState = "running" /\ ~cancelled
    /\ produced = nPages /\ sentinels < 1
    /\ QueueHasRoom(prefetchQueue)
    /\ prefetchQueue' = Append(prefetchQueue, Sentinel)
    /\ sentinels' = sentinels + 1
    /\ UNCHANGED <<prefetchDepth, failFast, nPages, produced, cons, poolGpu, collected,
                   poolState, returned, propagated, cancelled, failOrder>>
    /\ UNCHANGED nonPoolVars

\* producer: after the last image one sentinel per consumer is put.
ProduceSentinel ==
    /\ poolState = "running" /\ ~cancelled
    /\ produced = nPages /\ sentinels < NumConsumers
    /\ QueueHasRoom(prefetchQueue)
    /\ prefetchQueue' = Append(prefetchQueue, Sentinel)
    /\ sentinels' = sentinels + 1
    /\ UNCHANGED <<prefetchDepth, failFast, nPages, produced, cons, poolGpu, collected,
                   poolState, returned, propagated, cancelled, failOrder>>
    /\ UNCHANGED nonPoolVars

\* consumer: path, img = prefetch_queue.get(); a sentinel ends the consumer.
ConsumerGet(c) ==
    /\ poolState = "running" /\ ~cancelled
    /\ cons[c].at = "idle"
    /\ prefetchQueue # << >>
    /\ prefetchQueue' = Tail(prefetchQueue)
    /\ cons' = [cons EXCEPT ![c] =
                  IF Head(prefetchQueue) = Sentinel
                  THEN [at |-> "stopped", tag |-> 0, page |-> 0]
                  ELSE [at |-> "has", tag |-> Head(prefetchQueue).tag,
                        page |-> Head(prefetchQueue).page]]
    /\ UNCHANGED <<prefetchDepth, failFast, nPages, produced, sentinels, poolGpu, collected,
                   poolState, returned, propagated, cancelled, failOrder>>
    /\ UNCHANGED nonPoolVars

\* consumer: with gpu_semaphore: the permit is taken, predict begins.
PredictBegin(c) ==
    /\ poolState = "running" /\ ~cancelled
    /\ cons[c].at = "has"
    /\ SemCanAcquire(poolGpu)
    /\ poolGpu' = poolGpu - 1
    /\ cons' = [cons EXCEPT ![c].at = "predict"]
    /\ UNCHANGED <<prefetchDepth, failFast, nPages, produced, sentinels, prefetchQueue,
                   collected, poolState, returned, propagated, cancelled, failOrder>>
    /\ UNCHANGED nonPoolVars

\* consumer: predict returns; the result is collected with the unit's tag.
PredictOk(c) ==
    /\ poolState = "running"
    /\ cons[c].at = "predict"
    /\ poolGpu' = SemRelease(poolGpu)
    /\ collected' = Append(collected, [tag |-> cons[c].tag, page |-> cons[c].page, out |-> "ok",
                                     why |-> "none"])
    /\ cons' = [cons EXCEPT ![c] = IdleConsumer]
    /\ UNCHANGED <<prefetchDepth, failFast, nPages, produced, sentinels, prefetchQueue,
                   poolState, returned, propagated, cancelled, failOrder>>
    /\ UNCHANGED nonPoolVars

\* consumer: predict raises.  The error is captured on the page's result, or,
\* under fail-fast, the remaining work is cancelled and the error kept.
PredictRaise(c) ==
    /\ poolState = "running"
    /\ cons[c].at = "predict"
    /\ poolGpu' = SemRelease(poolGpu)
    /\ failOrder' = Append(failOrder, cons[c].page)
    /\ cons' = [cons EXCEPT ![c] = IdleConsumer]
    /\ IF AbortsOnFailure
       THEN /\ cancelled' = TRUE
            /\ propagated' = FirstError(propagated, cons[c].page)
            /\ collected' = collected
       ELSE /\ collected' = Append(collected,
                                   [tag |-> cons[c].tag, page |-> cons[c].page, out |-> "err",
                                    why |-> "predict"])
            /\ UNCHANGED <<cancelled, propagated>>
    /\ UNCHANGED <<prefetchDepth, failFast, nPages, produced, sentinels, prefetchQueue,
                   poolState, returned>>
    /\ UNCHANGED nonPoolVars

\* Variant: the timed-out call leaves through the release of the lock.
LockTimeoutReleases(c) ==
    /\ poolState = "running" /\ ~cancelled
    /\ cons[c].at = "has"
    /\ SemTimesOut(poolGpu)
    /\ poolGpu' = SemRelease(poolGpu)
    /\ failOrder' = Append(failOrder, cons[c].page)
    /\ cons' = [cons EXCEPT ![c] = IdleConsumer]
    /\ IF AbortsOnFailure
       THEN /\ cancelled' = TRUE
            /\ propagated' = FirstError(propagated, cons[c].page)
            /\ collected' = collected
       ELSE /\ collected' = Append(collected,
                                   [tag |-> cons[c].tag, page |-> cons[c].page, out |-> "err",
                                    why |-> "timeout"])
            /\ UNCHANGED <<cancelled, propagated>>
    /\ UNCHANGED <<prefetchDepth, failFast, nPages, produced, sentinels, prefetchQueue,
                   poolState, returned>>
    /\ UNCHANGED nonPoolVars

\* consumer: the wait for the GPU lock exceeds EXAMPAPER_GPU_LOCK_TIMEOUT_S.
\* The permit was never taken; the inference call of this page fails.
LockTimeout(c) ==
    /\ poolState = "running" /\ ~cancelled
    /\ cons[c].at = "has"
    /\ SemTimesOut(poolGpu)
    /\ poolGpu' = poolGpu
    /\ failOrder' = Append(failOrder, cons[c].page)
    /\ cons' = [cons EXCEPT ![c] = IdleConsumer]
    /\ IF AbortsOnFailure
       THEN /\ cancelled' = TRUE
            /\ propagated' = FirstError(propagated, cons[c].page)
            /\ collected' = collected
       ELSE /\ collected' = Append(collected,
                                   [tag |-> cons[c].tag, page |-> cons[c].page, out |-> "err",
                                    why |-> "timeout"])
            /\ UNCHANGED <<cancelled, propagated>>
    /\ UNCHANGED <<prefetchDepth, failFast, nPages, produced, sentinels, prefetchQueue,
                   poolState, returned>>
    /\ UNCHANGED nonPoolVars

\* process_pages returns once every consumer has met its sentinel.
PoolReturn ==
    /\ poolState = "running" /\ ~cancelled
    /\ \A c \in Consumers : cons[c].at = "stopped"
    /\ returned' = ReturnOrder
    /\ poolState' = "returned"
    /\ UNCHANGED <<prefetchDepth, failFast, nPages, produced, sentinels, prefetchQueue, cons,
                   poolGpu, collected, propagated, cancelled, failOrder>>
    /\ UNCHANGED nonPoolVars

\* process_pages raises the kept error once no inference is in flight.
PoolRaise ==
    /\ poolState = "running" /\ cancelled
    /\ \A c \in Consumers : cons[c].at # "predict"
    /\ poolState' = "raised"
    /\ UNCHANGED <<prefetchDepth, failFast, nPages, produced, sentinels, prefetchQueue, cons,
                   poolGpu, collected, returned, propagated, cancelled, failOrder>>
    /\ UNCHANGED nonPoolVars

NextPool ==
    \/ Produce
    \/ ProduceSentinel
    \/ \E c \in Consumers : ConsumerGet(c)
    \/ \E c \in Consumers : PredictBegin(c)
    \/ \E c \in Consumers : PredictOk(c)
    \/ \E c \in Consumers : PredictRaise(c)
    \/ \E c \in Consumers : LockTimeout(c)
    \/ PoolReturn
    \/ PoolRaise

SpecPool == InitPool /\ [][NextPool]_vars

\* Scheduling of the pool's threads: the producer and every consumer keep
\* running, a wait for the lock ends with the permit or with the timeout, an
\* inference call comes back, and process_pages joins its threads.
FairPool ==
    /\ WF_vars(Produce)
    /\ WF_vars(ProduceSentinel)
    /\ \A c \in Consumers :
          /\ WF_vars(ConsumerGet(c))
          /\ WF_vars(PredictBegin(c) \/ LockTimeout(c))
          /\ WF_vars(PredictOk(c) \/ PredictRaise(c))
    /\ WF_vars(PoolReturn)
    /\ WF_vars(PoolRaise)

SpecPoolFair == InitPool /\ [][NextPool]_vars /\ FairPool

(***************************************************************************)
(* Properties of the page worker pool                                      *)
(***************************************************************************)
Range(q) == {q[k] : k \in 1..Len(q)}

\* Number of places page i is at: on the queue, with a consumer, collected.
InQueue(i) == Cardinality({k \in 1..Len(prefetchQueue) : prefetchQueue[k].page = i})
Held(i) == Cardinality({c \in Consumers : cons[c].at \in {"has", "predict"} /\ cons[c].page = i})
Collected(i) == Cardinality({k \in 1..Len(collected) : collected[k].page = i})

\* C14: the N results process_pages returns are the results of the N pages
\* in submission order, whatever order the consumers finished in.
C14_ResultsInSubmissionOrder ==
    poolState = "returned" =>
        /\ Len(returned) = nPages
        /\ \A i \in Pages : returned[i].page = i

\* C14 witness: the pool has returned although the consumers finished a
\* later page before an earlier one.
C14_Witness ==
    /\ poolState = "returned"
    /\ \E a, b \in 1..Len(collected) : a < b /\ collected[a].page > collected[b].page

\* C15: the prefetch queue never holds more than prefetch_depth units; the
\* producer puts nothing while the queue is full; and until work is
\* cancelled every page the producer has put is at exactly one place (on the
\* queue, with a consumer, or collected), so none is dropped.
C15_QueueBounded ==
    /\ [](Len(prefetchQueue) <= prefetchDepth)
    /\ [](~cancelled => \A i \in Pages :
            InQueue(i) + Held(i) + Collected(i) = IF i <= produced THEN 1 ELSE 0)
    /\ [][Len(prefetchQueue) >= prefetchDepth =>
            /\ produced' = produced /\ sentinels' = sentinels
            /\ Len(prefetchQueue') <= Len(prefetchQueue)]_vars

\* C15 witness: the queue is full while the producer still has pages to put.
C15_Witness ==
    /\ prefetchDepth = MaxPrefetchDepth
    /\ Len(prefetchQueue) = prefetchDepth /\ produced < nPages

\* C16: without fail-fast no failure cancels or aborts the batch: the pool
\* returns a result for every page, in order, and a result carries an error
\* exactly when the inference of its own page failed.
C16_FailureCapturedPerPage ==
    ~failFast =>
        /\ ~cancelled /\ propagated = 0 /\ poolState # "raised"
        /\ poolState = "returned" =>
              /\ Len(returned) = nPages
              /\ \A i \in Pages : /\ returned[i].page = i
                                  /\ returned[i].out = "err" <=> i \in Range(failOrder)

\* C16 witness: the inference of page 1 failed and the pool has returned
\* with the other pages processed.
C16_Witness ==
    /\ ~failFast /\ poolState = "returned" /\ nPages >= 2
    /\ returned[1].out = "err"
    /\ \A i \in Pages \ {1} : returned[i].out = "ok"

\* C17: under fail-fast the first failure cancels the remaining work (from
\* then on the producer puts nothing, no consumer takes a unit and no
\* inference begins), the pool never returns after a failure, and the error
\* it raises is the one of the first failure.
C17_FailFastFirstError ==
    /\ [](failFast =>
            /\ cancelled <=> failOrder # << >>
            /\ cancelled => propagated = failOrder[1]
            /\ poolState = "returned" => failOrder = << >>
            /\ poolState = "raised" => cancelled)
    /\ [][(failFast /\ cancelled) =>
            /\ produced' = produced /\ sentinels' = sentinels
            /\ prefetchQueue' = prefetchQueue
            /\ \A c \in Consumers : cons'[c].at = "predict" => cons[c].at = "predict"]_vars

\* C17 witness: two inferences failed, the pool has raised, and pages were
\* left unprocessed.
C17_Witness ==
    /\ failFast /\ poolState = "raised" /\ Len(failOrder) >= 2
    /\ (produced < nPages \/ prefetchQueue # << >>)

(***************************************************************************)
(* Event stream: stream_task of plan2.md and connectEventSource of the     *)
(* connection store; the publishing side (EventChannel) is modelled from   *)
(* the specification, section 6.                                           *)
(***************************************************************************)
StoredKinds == {"step", "done"}

\* Variant: the replay starts at the event with the given id.
GetEventsFrom(x) == SelectSeq(evLog, LAMBDA e : e.id >= x)

\* get_events_since(task_id, last_event_id)
GetEventsSince(x) == SelectSeq(evLog, LAMBDA e : e.id > x)

\* _format_sse(event): a replayed event is sent without an id field.
ReplayEventId(e) == 0

\* _format_sse(event, event_id=event.id)
LiveEventId(e) == e.id

\* Variant: the id of the event is stored even when it is empty.
ReceiveIdAlways(eid) == eid

\* if (e.lastEventId) lastEventId.value = e.lastEventId
ReceiveId(eid) == IF eid # 0 THEN eid ELSE lastEventId

InitEvents ==
    /\ EventsAtRest
    /\ ParamsAtRest
    /\ ConnAtRest
    /\ StoresAtRest
    /\ HybridAtRest
    /\ TaskAtRest
    /\ PoolAtRest

\* A step snapshot or done event is published: it is stored under the next
\* sequence id and pushed to the subscription, if there is one.
PublishStored(kind) ==
    /\ nextId <= MaxEvents
    /\ evLog' = Append(evLog, [id |-> nextId, kind |-> kind])
    /\ nextId' = nextId + 1
    /\ liveQ' = IF phase = "live" THEN Append(liveQ, [id |-> nextId, kind |-> kind]) ELSE liveQ
    /\ UNCHANGED <<lastEventId, phase, connX, replayBuf, replayed, logAtQuery, nConnects>>
    /\ UNCHANGED nonEventVars

\* A log line is live-only: it is pushed without an id and not stored.
PublishLog ==
    /\ phase = "live" /\ Len(liveQ) < MaxEvents
    /\ liveQ' = Append(liveQ, [id |-> 0, kind |-> "log"])
    /\ UNCHANGED <<evLog, nextId, lastEventId, phase, connX, replayBuf, replayed, logAtQuery,
                   nConnects>>
    /\ UNCHANGED nonEventVars

\* connectEventSource: new EventSource(getStreamUrl(taskId, lastEventId));
\* stream_task reads the missed events when a last_event_id is given.
Connect ==
    /\ phase = "closed" /\ nConnects < MaxConnects
    /\ nConnects' = nConnects + 1
    /\ connX' = lastEventId
    /\ replayBuf' = IF lastEventId # 0 THEN GetEventsSince(lastEventId) ELSE << >>
    /\ logAtQuery' = Len(evLog)
    /\ replayed' = << >>
    /\ liveQ' = << >>
    /\ phase' = "replay"
    /\ UNCHANGED <<evLog, nextId, lastEventId>>
    /\ UNCHANGED nonEventVars

\* stream_task yields the next missed event; the listener of its kind runs.
ReplayYield ==
    /\ phase = "replay" /\ replayBuf # << >>
    /\ lastEventId' = ReceiveId(ReplayEventId(Head(replayBuf)))
    /\ replayed' = Append(replayed, Head(replayBuf).id)
    /\ IF Head(replayBuf).kind = "done"
       THEN phase' = "closed" /\ replayBuf' = << >>
       ELSE phase' = phase /\ replayBuf' = Tail(replayBuf)
    /\ UNCHANGED <<evLog, nextId, connX, liveQ, logAtQuery, nConnects>>
    /\ UNCHANGED nonEventVars

\* stream_task goes on to subscribe_events(task_id).
Subscribe ==
    /\ phase = "replay" /\ replayBuf = << >>
    /\ phase' = "live"
    /\ UNCHANGED <<evLog, nextId, lastEventId, connX, replayBuf, replayed, liveQ, logAtQuery,
                   nConnects>>
    /\ UNCHANGED nonEventVars

\* A pushed event arrives; the listener of its kind runs.
LiveReceive ==
    /\ phase = "live" /\ liveQ # << >>
    /\ lastEventId' = ReceiveId(LiveEventId(Head(liveQ)))
    /\ IF Head(liveQ).kind = "done"
       THEN phase' = "closed" /\ liveQ' = << >>
       ELSE phase' = phase /\ liveQ' = Tail(liveQ)
    /\ UNCHANGED <<evLog, nextId, connX, replayBuf, replayed, logAtQuery, nConnects>>
    /\ UNCHANGED nonEventVars

\* es.onerror: the connection is lost and closed; a retry connects again.
ConnectionError ==
    /\ phase # "closed"
    /\ phase' = "closed"
    /\ replayBuf' = << >>
    /\ liveQ' = << >>
    /\ UNCHANGED <<evLog, nextId, lastEventId, connX, replayed, logAtQuery, nConnects>>
    /\ UNCHANGED nonEventVars

NextEvents ==
    \/ \E kind \in StoredKinds : PublishStored(kind)
    \/ PublishLog
    \/ Connect
    \/ ReplayYield
    \/ Subscribe
    \/ LiveReceive
    \/ ConnectionError

SpecEvents == InitEvents /\ [][NextEvents]_vars

(***************************************************************************)
(* Properties of the event stream                                          *)
(***************************************************************************)
Ids(q) == [k \in 1..Len(q) |-> q[k].id]

\* Ids of the first n stored events that are greater than x, in log order.
IdsAfter(x, n) == Ids(SelectSeq(SubSeq(evLog, 1, n), LAMBDA e : e.id > x))

C19_DisabledIsSingleDeviceLock ==
    /\ [](hybridOcr = "0" =>
            /\ \A t \in Threads : pc[t] \in {"idle", "gpu1", "gpu_wait", "gpu3"}
            /\ \A t \in Threads : DeviceKind(t) \in {"none", "gpu"}
            /\ cpuSem = cpuSlots
            /\ cpuPipeline = "none"
            /\ cpuCreated = 0)
    /\ [][hybridOcr = "0" =>
            \A t \in Threads :
                /\ (pc[t] = "idle" /\ pc'[t] # "idle") =>
                       pc'[t] = (IF gpuSem > 0 THEN "gpu1" ELSE "gpu_wait")
                /\ (pc[t] = "gpu_wait" /\ pc'[t] # "gpu_wait") => pc'[t] = "gpu3"]_vars
    /\ \A t \in Threads : (hybridOcr = "0" /\ pc[t] = "gpu_wait") ~> (pc[t] = "gpu3")

\* C19 witness: with the flag at "0" a caller that found the GPU busy runs
\* through tier 3 while another one waits.
C19_Witness ==
    /\ hybridOcr = DefaultHybridOcr
    /\ \E t, u \in Threads : pc[t] = "gpu3" /\ pc[u] = "gpu_wait"

\* C20: a caller whose non-blocking GPU attempt succeeds enters the GPU
\* scope of tier 1, takes no CPU permit then or while it is in the scope,
\* and leaves only by ending the scope; a caller goes to the CPU semaphore
\* only in the step in which its own attempt found no GPU permit, and
\* reaches the CPU tier only from there.
C20_Tier1DecidesRouting ==
    [][\A t \in Threads :
        /\ (pc[t] = "idle" /\ gpuSem > 0 /\ pc'[t] # "idle") =>
               pc'[t] = "gpu1" /\ gpuSem' = gpuSem - 1 /\ cpuSem' = cpuSem
        /\ (pc[t] = "gpu1") => pc'[t] \in {"gpu1", "idle"} /\ DeviceKind(t) = "gpu"
        /\ (pc[t] = "gpu1" /\ pc'[t] = "idle") => cpuSem' = cpuSem
        /\ (pc[t] # "cpu_wait" /\ pc'[t] = "cpu_wait") => pc[t] = "idle" /\ gpuSem = 0
        /\ (~InCpuTier(t) /\ InCpuTier(t)') => pc[t] = "cpu_wait"]_vars

\* C20 witness: one caller runs in the GPU scope of tier 1 while another,
\* whose attempt failed, runs on the CPU.
C20_Witness == \E t, u \in Threads : pc[t] = "gpu1" /\ pc[u] = "cpu_scope"

(***************************************************************************)
(* Properties of a failed CPU construction                                 *)
(***************************************************************************)
\* C21: once _create_ppstructure(device="cpu") has raised, no caller routed
\* to the CPU starts the construction again (stated for the steps that
\* follow the failure directly, before any other scope is left).
C21_NoConstructionAfterFailure ==
    [][lastExit = "create_raise" =>
          \A t \in Threads : ~(pc[t] = "cpu_ensure" /\ pc'[t] = "cpu_create")]_vars

(***************************************************************************)
(* Properties of the GPU lock timeout                                      *)
(***************************************************************************)
Predicting == {c \in Consumers : cons[c].at = "predict"}

\* A consumer that waited for the lock leaves the wait without the permit.
TimesOut(c) == cons[c].at = "has" /\ cons'[c].at = "idle"

\* C22: a consumer whose wait for the GPU lock times out fails its own call
\* and leaves the lock as it was: the permit count and the holders are the
\* same after the step; permits plus holders never change, so whenever no
\* inference is running a permit is free for the next request.
C22_TimeoutKeepsLock ==
    /\ [][\A c \in Consumers : TimesOut(c) =>
              /\ poolGpu' = poolGpu /\ Predicting' = Predicting
              /\ cons[c].page \in Range(failOrder')]_vars
    /\ [][poolGpu' + Cardinality(Predicting') = poolGpu + Cardinality(Predicting)]_vars
    /\ [](Predicting = {} => poolGpu >= 1)

\* C22 witness: with a single permit a wait timed out, and afterwards two
\* inferences took the lock one after the other and succeeded.
C22_Witness ==
    /\ poolGpu = 1 /\ Predicting = {}
    /\ \E a, b, d \in 1..Len(collected) :
          /\ a < b /\ b < d
          /\ collected[a].why = "timeout"
          /\ collected[b].out = "ok" /\ collected[d].out = "ok"

(***************************************************************************)
(* Hardware detection and parameter calculation (manage.py)                *)
(***************************************************************************)
\* nvidia-smi reports MB; psutil reports bytes, kept here in MB.
MbPerGb == 1024
VramValues == {512 * k : k \in 0..MaxVramSteps}
RamValues == {256 * k : k \in 0..MaxRamSteps}
CoreValues == 1..MaxCores

\* Variant: the larger batch sizes go to the smaller cards.
BatchSizesReversed(vramMb) ==
    IF vramMb <= 4 * MbPerGb THEN [det |-> 4, rec |-> 32]
    ELSE IF vramMb <= 6 * MbPerGb THEN [det |-> 3, rec |-> 24]
    ELSE IF vramMb <= 8 * MbPerGb THEN [det |-> 2, rec |-> 16]
    ELSE [det |-> 1, rec |-> 8]

\* calculate_optimal_params: det_batch, rec_batch by vram (vram = MB / 1024)
BatchSizes(vramMb) ==
    IF vramMb <= 4 * MbPerGb THEN [det |-> 1, rec |-> 8]
    ELSE IF vramMb <= 6 * MbPerGb THEN [det |-> 2, rec |-> 16]
    ELSE IF vramMb <= 8 * MbPerGb THEN [det |-> 3, rec |-> 24]
    ELSE [det |-> 4, rec |-> 32]

Max2(a, b) == IF a >= b THEN a ELSE b
Min2(a, b) == IF a <= b THEN a ELSE b

\* prefetch = max(4, min(int(ram / 0.5), 16))
Prefetch(ramMb) == Max2(4, Min2(ramMb \div (MbPerGb \div 2), 16))

\* workers = max(2, min(cores // 2, 6))
Workers(cores) == Max2(2, Min2(cores \div 2, 6))

InitParams ==
    /\ ParamsAtRest
    /\ ConnAtRest
    /\ StoresAtRest
    /\ HybridAtRest
    /\ TaskAtRest
    /\ PoolAtRest
    /\ EventsAtRest

\* detect_hardware: nvidia-smi answers and its first line parses.
ProbeGpuOk(mb) ==
    /\ probeAt = "gpu"
    /\ config' = [config EXCEPT !.gpu_vram_mb = mb]
    /\ probeAt' = "ram"
    /\ fellBack' = fellBack
    /\ UNCHANGED params
    /\ UNCHANGED nonParamVars

\* detect_hardware: anything in the GPU probe raises (except Exception).
ProbeGpuFails ==
    /\ probeAt = "gpu"
    /\ config' = [config EXCEPT !.gpu_vram_mb = 0]
    /\ probeAt' = "ram"
    /\ fellBack' = fellBack \cup {"gpu"}
    /\ UNCHANGED params
    /\ UNCHANGED nonParamVars

\* detect_hardware: psutil.virtual_memory().available
ProbeRamOk(mb) ==
    /\ probeAt = "ram"
    /\ config' = [config EXCEPT !.ram_mb = mb]
    /\ probeAt' = "cores"
    /\ fellBack' = fellBack
    /\ UNCHANGED params
    /\ UNCHANGED nonParamVars

\* detect_hardware: `import psutil` raises ImportError (except ImportError).
ProbeRamImportError ==
    /\ probeAt = "ram"
    /\ config' = [config EXCEPT !.ram_mb = 8 * MbPerGb]
    /\ probeAt' = "cores"
    /\ fellBack' = fellBack \cup {"ram"}
    /\ UNCHANGED params
    /\ UNCHANGED nonParamVars

\* detect_hardware: psutil is there but virtual_memory() raises; the clause
\* `except ImportError` does not catch it and it leaves detect_hardware.
ProbeRamRaises ==
    /\ probeAt = "ram"
    /\ probeAt' = "raised"
    /\ UNCHANGED <<config, params, fellBack>>
    /\ UNCHANGED nonParamVars

\* detect_hardware: os.cpu_count() or 4 (n = 0 stands for None)
ProbeCores(n) ==
    /\ probeAt = "cores"
    /\ config' = [config EXCEPT !.cpu_cores = IF n = 0 THEN 4 ELSE n]
    /\ probeAt' = "calc"
    /\ fellBack' = IF n = 0 THEN fellBack \cup {"cores"} ELSE fellBack
    /\ UNCHANGED params
    /\ UNCHANGED nonParamVars

\* calculate_optimal_params(hw)
Calculate ==
    /\ probeAt = "calc"
    /\ params' = [det_batch |-> BatchSizes(config.gpu_vram_mb).det,
                  rec_batch |-> BatchSizes(config.gpu_vram_mb).rec,
                  prefetch |-> Prefetch(config.ram_mb),
                  workers |-> Workers(config.cpu_cores)]
    /\ probeAt' = "done"
    /\ UNCHANGED <<config, fellBack>>
    /\ UNCHANGED nonParamVars

NextParams ==
    \/ \E mb \in VramValues : ProbeGpuOk(mb)
    \/ ProbeGpuFails
    \/ \E mb \in RamValues : ProbeRamOk(mb)
    \/ ProbeRamImportError
    \/ ProbeRamRaises
    \/ \E n \in {0} \cup CoreValues : ProbeCores(n)
    \/ Calculate

SpecParams == InitParams /\ [][NextParams]_vars

(***************************************************************************)
(* Properties of the calculated parameters                                 *)
(***************************************************************************)
\* C23: the batch sizes calculated for a profile are not above those of any
\* profile with more GPU memory.
C23_BatchSizesMonotone ==
    probeAt = "done" =>
        \A mb \in VramValues :
            mb > config.gpu_vram_mb =>
                /\ BatchSizes(mb).det >= params.det_batch
                /\ BatchSizes(mb).rec >= params.rec_batch

\* C23 witness: a profile between 6 and 8 GB got batch sizes above the
\* smallest and below the largest.
C23_Witness ==
    /\ probeAt = "done"
    /\ config.gpu_vram_mb > 6 * MbPerGb /\ config.gpu_vram_mb <= 8 * MbPerGb
    /\ params.det_batch = 3 /\ params.rec_batch = 24

\* C24: the calculated worker count is clamp(cpu_cores // 2, 2, 4), hence at
\* most 4.
C24_WorkersClampedTo4 ==
    probeAt = "done" =>
        /\ params.workers = Max2(2, Min2(config.cpu_cores \div 2, 4))
        /\ params.workers <= 4

\* C25: detect_hardware never raises; a probe that fails leaves its
\* fallback and the later fields are still probed.
C25_DetectNeverRaises ==
    /\ probeAt # "raised"
    /\ probeAt \in {"calc", "done"} =>
          /\ config.gpu_vram_mb >= 0 /\ config.ram_mb >= 0 /\ config.cpu_cores >= 1
          /\ "gpu" \in fellBack => config.gpu_vram_mb = 0
          /\ "ram" \in fellBack => config.ram_mb = 8 * MbPerGb
          /\ "cores" \in fellBack => config.cpu_cores = 4

(***************************************************************************)
(* Connection store (useConnectionStore) over the event stream, with the   *)
(* handlers the task store gives it                                        *)
(***************************************************************************)
MAX_RETRIES == 5

\* Variant: a callback never finds its generation out of date.
IsCurrentAlways(g) == TRUE

\* The test every callback starts with: generation.value === currentGen
IsCurrent(g) == g = generation

\* Variant: a retry is scheduled whatever the count.
CanRetryAlways(rc) == TRUE

\* onerror: retryCount.value < MAX_RETRIES
CanRetry(rc) == rc < MAX_RETRIES

\* The run has published its done event.
EndReported == srvEnd # "none"

\* data.status of GET /status
PolledStatus == IF EndReported THEN srvEnd ELSE "processing"

\* The newest step snapshot of the task.
LatestSnapshot ==
    IF \E k \in 1..Len(evLog) : evLog[k].kind = "step"
    THEN evLog[CHOOSE i \in 1..Len(evLog) :
                  /\ evLog[i].kind = "step"
                  /\ \A k \in 1..Len(evLog) : evLog[k].kind = "step" => k <= i].id
    ELSE 0

InitConn ==
    /\ ConnAtRest
    /\ StoresAtRest
    /\ EventsAtRest
    /\ ParamsAtRest
    /\ HybridAtRest
    /\ TaskAtRest
    /\ PoolAtRest

ServerStreamUnchanged == UNCHANGED <<evLog, nextId, replayed, logAtQuery, nConnects>>

\* Variant: the interval is left running.
StopPollingInternalSkipped(p) == p

\* stopPollingInternal: if (pollTimer.value !== null) the interval is cleared.
StopPollingInternal(p) == IF p # 0 THEN 0 ELSE p

\* disconnectEventSourceInternal, and with it the end of the server's stream
CloseStream ==
    /\ phase' = "closed"
    /\ replayBuf' = << >>
    /\ liveQ' = << >>

\* startProcessing: api.startProcess succeeds, then connectEventSource.
StartProcessingOk ==
    /\ tstatus = "idle" /\ generation < MaxGeneration
    /\ tstatus' = "processing"
    /\ generation' = generation + 1
    /\ retryTimer' = 0 /\ pollTimer' = StopPollingInternal(pollTimer)
    /\ esGen' = generation + 1 /\ esState' = "connecting"
    /\ connectionStatus' = "connecting"
    /\ connX' = lastEventId
    /\ CloseStream
    /\ UNCHANGED <<retryCount, inflight, cSteps, cLogs, nTerminal, nFallback, srvEnd,
                   staleDropped, userStops, lastEventId>>
    /\ ServerStreamUnchanged
    /\ UNCHANGED <<taskNo, idTask>>
    /\ UNCHANGED nonConnVars

\* startProcessing: api.startProcess fails, the catch clause starts polling.
StartProcessingFails ==
    /\ tstatus = "idle" /\ generation < MaxGeneration
    /\ tstatus' = "processing"
    /\ generation' = generation + 1
    /\ retryTimer' = 0
    /\ esGen' = 0 /\ esState' = "none"
    /\ pollTimer' = generation + 1
    /\ connectionStatus' = "connected"
    /\ nTerminal' = 0
    /\ CloseStream
    /\ UNCHANGED <<retryCount, inflight, cSteps, cLogs, nFallback, srvEnd, staleDropped,
                   userStops, lastEventId, connX>>
    /\ ServerStreamUnchanged
    /\ UNCHANGED <<taskNo, idTask>>
    /\ UNCHANGED nonConnVars

\* A file is dropped on the upload zone while a finished task is shown:
\* uploadFile in auto mode stores the new task id and calls startProcessing,
\* which calls connectEventSource for the new task.  The steps shown are the
\* new task's; the server starts the new task's event log, its ids going on
\* from the ones already given; the history variables start again.
UploadNew ==
    /\ tstatus \in {"completed", "error"} /\ generation < MaxGeneration
    /\ taskNo < MaxTasks
    /\ taskNo' = taskNo + 1
    /\ tstatus' = "processing"
    /\ generation' = generation + 1
    /\ retryTimer' = 0 /\ pollTimer' = StopPollingInternal(pollTimer)
    /\ esGen' = generation + 1 /\ esState' = "connecting"
    /\ connectionStatus' = "connecting"
    /\ connX' = lastEventId
    /\ CloseStream
    /\ evLog' = << >>
    /\ srvEnd' = "none"
    /\ cSteps' = 0
    /\ nTerminal' = 0 /\ nFallback' = 0
    /\ staleDropped' = FALSE /\ userStops' = 0
    /\ UNCHANGED <<retryCount, inflight, cLogs, lastEventId, idTask>>
    /\ UNCHANGED <<nextId, replayed, logAtQuery, nConnects>>
    /\ UNCHANGED nonConnVars

\* The runner publishes a step snapshot or, once, the done event.
RunnerPublish(kind, result) ==
    /\ tstatus # "idle" /\ ~EndReported
    /\ nextId <= MaxEvents
    /\ evLog' = Append(evLog, [id |-> nextId, kind |-> kind])
    /\ nextId' = nextId + 1
    /\ liveQ' = IF phase = "live" THEN Append(liveQ, [id |-> nextId, kind |-> kind]) ELSE liveQ
    /\ srvEnd' = IF kind = "done" THEN result ELSE srvEnd
    /\ UNCHANGED <<lastEventId, phase, connX, replayBuf, replayed, logAtQuery, nConnects>>
    /\ UNCHANGED <<generation, connectionStatus, retryCount, esGen, esState, retryTimer,
                   pollTimer, inflight, cSteps, cLogs, tstatus, nTerminal, nFallback,
                   staleDropped, userStops>>
    /\ UNCHANGED <<taskNo, idTask>>
    /\ UNCHANGED nonConnVars

\* The runner emits a log line: live-only, no id.
RunnerLog ==
    /\ phase = "live" /\ ~EndReported
    /\ cLogs + Len(SelectSeq(liveQ, LAMBDA e : e.kind = "log")) < MaxLogs
    /\ liveQ' = Append(liveQ, [id |-> 0, kind |-> "log"])
    /\ UNCHANGED <<evLog, nextId, lastEventId, phase, connX, replayBuf, replayed, logAtQuery,
                   nConnects>>
    /\ UNCHANGED connVars
    /\ UNCHANGED <<taskNo, idTask>>
    /\ UNCHANGED nonConnVars

\* The request of the EventSource is answered: stream_task starts with the
\* last_event_id of the URL, and es.onopen runs.
EsOpen ==
    /\ esState = "connecting"
    /\ IF IsCurrent(esGen)
       THEN /\ esState' = "open"
            /\ connectionStatus' = "connected"
            /\ retryCount' = 0
            /\ phase' = "replay"
            /\ replayBuf' = IF connX # 0 THEN GetEventsSince(connX) ELSE << >>
            /\ liveQ' = << >>
            /\ staleDropped' = staleDropped
       ELSE /\ esState' = "closed"
            /\ CloseStream
            /\ staleDropped' = TRUE
            /\ UNCHANGED <<connectionStatus, retryCount>>
    /\ UNCHANGED <<generation, esGen, retryTimer, pollTimer, inflight, cSteps, cLogs, tstatus,
                   nTerminal, nFallback, srvEnd, userStops, lastEventId, connX>>
    /\ ServerStreamUnchanged
    /\ UNCHANGED <<taskNo, idTask>>
    /\ UNCHANGED nonConnVars

\* stream_task: the replay is over, subscribe_events begins.
StreamSubscribe ==
    /\ esState = "open" /\ phase = "replay" /\ replayBuf = << >>
    /\ phase' = "live"
    /\ UNCHANGED <<evLog, nextId, lastEventId, connX, replayBuf, replayed, liveQ, logAtQuery,
                   nConnects>>
    /\ UNCHANGED connVars
    /\ UNCHANGED <<taskNo, idTask>>
    /\ UNCHANGED nonConnVars

\* The step, log or done listener for event e, which arrived with id eid;
\* restR and restL are what is left of the stream's buffers.
Listener(e, eid, restR, restL) ==
    IF ~IsCurrent(esGen)
    THEN /\ staleDropped' = TRUE
         /\ replayBuf' = restR /\ liveQ' = restL
         /\ UNCHANGED <<lastEventId, idTask, cSteps, cLogs, tstatus, esState, phase>>
    ELSE /\ staleDropped' = staleDropped
         /\ lastEventId' = ReceiveId(eid)
         /\ idTask' = IF eid # 0 THEN taskNo ELSE idTask
         /\ cSteps' = IF e.kind = "step" THEN e.id ELSE cSteps
         /\ cLogs' = IF e.kind = "log" THEN cLogs + 1 ELSE cLogs
         /\ IF e.kind = "done"
            THEN /\ esState' = "none"
                 /\ CloseStream
                 /\ tstatus' = IF srvEnd = "completed" THEN "completed" ELSE "error"
            ELSE /\ replayBuf' = restR /\ liveQ' = restL
                 /\ UNCHANGED <<esState, phase, tstatus>>

\* A replayed event reaches the EventSource.
EsReplayEvent ==
    /\ esState = "open" /\ phase = "replay" /\ replayBuf # << >>
    /\ Listener(Head(replayBuf), ReplayEventId(Head(replayBuf)), Tail(replayBuf), liveQ)
    /\ UNCHANGED <<generation, connectionStatus, retryCount, esGen, retryTimer, pollTimer,
                   inflight, nTerminal, nFallback, srvEnd, userStops, connX>>
    /\ ServerStreamUnchanged
    /\ UNCHANGED taskNo
    /\ UNCHANGED nonConnVars

\* A pushed event reaches the EventSource.
EsLiveEvent ==
    /\ esState = "open" /\ phase = "live" /\ liveQ # << >>
    /\ Listener(Head(liveQ), LiveEventId(Head(liveQ)), replayBuf, Tail(liveQ))
    /\ UNCHANGED <<generation, connectionStatus, retryCount, esGen, retryTimer, pollTimer,
                   inflight, nTerminal, nFallback, srvEnd, userStops, connX>>
    /\ ServerStreamUnchanged
    /\ UNCHANGED taskNo
    /\ UNCHANGED nonConnVars

\* es.onerror
EsError ==
    /\ esState \in {"connecting", "open"}
    /\ CloseStream
    /\ IF ~IsCurrent(esGen)
       THEN /\ esState' = "closed"
            /\ staleDropped' = TRUE
            /\ UNCHANGED <<generation, connectionStatus, retryCount, esGen, retryTimer,
                           pollTimer, nTerminal, nFallback>>
       ELSE IF CanRetry(retryCount)
       THEN /\ esState' = "none"
            /\ connectionStatus' = "reconnecting"
            /\ retryTimer' = esGen
            /\ UNCHANGED <<generation, retryCount, esGen, pollTimer, nTerminal, nFallback,
                           staleDropped>>
       ELSE \* onFallbackToPolling: startPolling
            /\ generation < MaxGeneration
            /\ retryCount' = 0
            /\ nFallback' = nFallback + 1
            /\ generation' = generation + 1
            /\ retryTimer' = 0
            /\ esState' = "none" /\ esGen' = esGen
            /\ pollTimer' = generation + 1
            /\ connectionStatus' = "connected"
            /\ nTerminal' = 0
            /\ staleDropped' = staleDropped
    /\ UNCHANGED <<inflight, cSteps, cLogs, tstatus, srvEnd, userStops, lastEventId, connX>>
    /\ ServerStreamUnchanged
    /\ UNCHANGED <<taskNo, idTask>>
    /\ UNCHANGED nonConnVars

\* The retry timer fires: retryCount++, connectEventSource.
RetryFire ==
    /\ retryTimer # 0
    /\ IF ~IsCurrent(retryTimer)
       THEN /\ retryTimer' = 0
            /\ staleDropped' = TRUE
            /\ UNCHANGED <<generation, connectionStatus, retryCount, esGen, esState, pollTimer,
                           connX, phase, replayBuf, liveQ>>
       ELSE /\ generation < MaxGeneration
            /\ retryCount' = retryCount + 1
            /\ generation' = generation + 1
            /\ retryTimer' = 0 /\ pollTimer' = StopPollingInternal(pollTimer)
            /\ esGen' = generation + 1 /\ esState' = "connecting"
            /\ connectionStatus' = "connecting"
            /\ connX' = lastEventId
            /\ CloseStream
            /\ staleDropped' = staleDropped
    /\ UNCHANGED <<inflight, cSteps, cLogs, tstatus, nTerminal, nFallback, srvEnd, userStops,
                   lastEventId>>
    /\ ServerStreamUnchanged
    /\ UNCHANGED <<taskNo, idTask>>
    /\ UNCHANGED nonConnVars

\* The interval fires: a stale tick clears the interval, a current one sends
\* api.getStatus and awaits the response.
TickFire ==
    /\ pollTimer # 0
    /\ IF ~IsCurrent(pollTimer)
       THEN /\ pollTimer' = StopPollingInternal(pollTimer)
            /\ staleDropped' = TRUE
            /\ inflight' = inflight
       ELSE /\ Len(inflight) < MaxInflight
            /\ inflight' = Append(inflight, pollTimer)
            /\ UNCHANGED <<pollTimer, staleDropped>>
    /\ UNCHANGED <<generation, connectionStatus, retryCount, esGen, esState, retryTimer, cSteps,
                   cLogs, tstatus, nTerminal, nFallback, srvEnd, userStops>>
    /\ UNCHANGED eventVars
    /\ UNCHANGED <<taskNo, idTask>>
    /\ UNCHANGED nonConnVars

Without(q, i) == SubSeq(q, 1, i - 1) \o SubSeq(q, i + 1, Len(q))

\* The status request of a tick is answered and the tick resumes.
TickResumeOk(i) ==
    /\ i \in 1..Len(inflight)
    /\ inflight' = Without(inflight, i)
    /\ IF ~IsCurrent(inflight[i])
       THEN /\ staleDropped' = TRUE
            /\ UNCHANGED <<connectionStatus, pollTimer, cSteps, tstatus, nTerminal>>
       ELSE /\ staleDropped' = staleDropped
            /\ cSteps' = IF LatestSnapshot # 0 THEN LatestSnapshot ELSE cSteps
            /\ IF PolledStatus \in {"completed", "failed"}
               THEN /\ pollTimer' = StopPollingInternal(pollTimer)
                    /\ connectionStatus' = "disconnected"
                    /\ tstatus' = IF PolledStatus = "completed" THEN "completed" ELSE "error"
                    /\ nTerminal' = nTerminal + 1
               ELSE UNCHANGED <<connectionStatus, pollTimer, tstatus, nTerminal>>
    /\ UNCHANGED <<generation, retryCount, esGen, esState, retryTimer, cLogs, nFallback, srvEnd,
                   userStops>>
    /\ UNCHANGED eventVars
    /\ UNCHANGED <<taskNo, idTask>>
    /\ UNCHANGED nonConnVars

\* The status request of a tick fails: the catch clause logs it.
TickResumeFails(i) ==
    /\ i \in 1..Len(inflight)
    /\ inflight' = Without(inflight, i)
    /\ UNCHANGED <<generation, connectionStatus, retryCount, esGen, esState, retryTimer,
                   pollTimer, cSteps, cLogs, tstatus, nTerminal, nFallback, srvEnd,
                   staleDropped, userStops>>
    /\ UNCHANGED eventVars
    /\ UNCHANGED <<taskNo, idTask>>
    /\ UNCHANGED nonConnVars

\* disconnectEventSource()
DisconnectEventSource ==
    /\ tstatus # "idle" /\ generation < MaxGeneration /\ userStops < MaxStops
    /\ generation' = generation + 1
    /\ retryTimer' = 0
    /\ esState' = "none"
    /\ CloseStream
    /\ connectionStatus' = IF connectionStatus # "reconnecting" THEN "disconnected"
                           ELSE connectionStatus
    /\ userStops' = userStops + 1
    /\ UNCHANGED <<retryCount, esGen, pollTimer, inflight, cSteps, cLogs, tstatus, nTerminal,
                   nFallback, srvEnd, staleDropped, lastEventId, connX>>
    /\ ServerStreamUnchanged
    /\ UNCHANGED <<taskNo, idTask>>
    /\ UNCHANGED nonConnVars

\* stopPolling()
StopPolling ==
    /\ tstatus # "idle" /\ generation < MaxGeneration /\ userStops < MaxStops
    /\ generation' = generation + 1
    /\ pollTimer' = StopPollingInternal(pollTimer)
    /\ connectionStatus' = "disconnected"
    /\ userStops' = userStops + 1
    /\ UNCHANGED <<retryCount, esGen, esState, retryTimer, inflight, cSteps, cLogs, tstatus,
                   nTerminal, nFallback, srvEnd, staleDropped>>
    /\ UNCHANGED eventVars
    /\ UNCHANGED <<taskNo, idTask>>
    /\ UNCHANGED nonConnVars

\* reset()
ResetConnection ==
    /\ tstatus # "idle" /\ generation < MaxGeneration /\ userStops < MaxStops
    /\ generation' = generation + 1
    /\ retryTimer' = 0 /\ pollTimer' = StopPollingInternal(pollTimer)
    /\ esState' = "none"
    /\ CloseStream
    /\ connectionStatus' = "disconnected"
    /\ retryCount' = 0
    /\ lastEventId' = 0 /\ idTask' = 0
    /\ userStops' = userStops + 1
    /\ UNCHANGED <<esGen, inflight, cSteps, cLogs, tstatus, nTerminal, nFallback, srvEnd,
                   staleDropped, connX>>
    /\ ServerStreamUnchanged
    /\ UNCHANGED taskNo
    /\ UNCHANGED nonConnVars

NextConn ==
    \/ StartProcessingOk
    \/ StartProcessingFails
    \/ \E kind \in StoredKinds, result \in {"completed", "failed"} : RunnerPublish(kind, result)
    \/ RunnerLog
    \/ EsOpen
    \/ StreamSubscribe
    \/ EsReplayEvent
    \/ EsLiveEvent
    \/ EsError
    \/ RetryFire
    \/ TickFire
    \/ \E i \in 1..MaxInflight : TickResumeOk(i)
    \/ \E i \in 1..MaxInflight : TickResumeFails(i)
    \/ DisconnectEventSource
    \/ StopPolling
    \/ ResetConnection
    \/ UploadNew

SpecConn == InitConn /\ [][NextConn]_vars

\* Scheduling of the client and of the network: a connecting EventSource is
\* answered or fails (an open one may stay up for ever), timers fire, events
\* on an open stream arrive, and a status request that keeps being sent is
\* answered at some point.
FairConn ==
    /\ WF_vars(esState = "connecting" /\ (EsOpen \/ EsError))
    /\ WF_vars(StreamSubscribe)
    /\ WF_vars(EsReplayEvent)
    /\ WF_vars(EsLiveEvent)
    /\ WF_vars(RetryFire)
    /\ WF_vars(TickFire)
    /\ SF_vars(\E i \in 1..MaxInflight : TickResumeOk(i))

SpecConnFair == InitConn /\ [][NextConn]_vars /\ FairConn

(***************************************************************************)
(* Properties of the connection store                                      *)
(***************************************************************************)
\* What a callback shows to the rest of the application.
Observable == <<generation, connectionStatus, retryCount, lastEventId, cSteps, cLogs,
                tstatus, nTerminal, nFallback>>

\* A callback created under an earlier generation runs.
StaleCallback ==
    \/ /\ esState \in {"connecting", "open"} /\ esGen # generation
       /\ (EsOpen \/ EsReplayEvent \/ EsLiveEvent \/ EsError)
    \/ /\ retryTimer # 0 /\ retryTimer # generation
       /\ RetryFire
    \/ /\ pollTimer # 0 /\ pollTimer # generation
       /\ TickFire
    \/ \E i \in 1..Len(inflight) : inflight[i] # generation /\ TickResumeOk(i)

C27_TerminalHandlerOnce == nTerminal <= 1

\* An error on the current EventSource after MAX_RETRIES retries in a row.
ExhaustedError ==
    /\ esState \in {"connecting", "open"} /\ esGen = generation
    /\ retryCount >= MAX_RETRIES
    /\ EsError

C29_ClientReachesTerminal ==
    (tstatus = "processing" /\ EndReported)
        ~> (tstatus \in {"completed", "error"} \/ userStops > 0 \/ generation = MaxGeneration)

ReceivesId ==
    /\ esState = "open" /\ esGen = generation
    /\ \/ /\ EsReplayEvent
          /\ ReplayEventId(Head(replayBuf)) # 0
          /\ lastEventId' = ReplayEventId(Head(replayBuf))
       \/ /\ EsLiveEvent
          /\ LiveEventId(Head(liveQ)) # 0
          /\ lastEventId' = LiveEventId(Head(liveQ))

\* connectEventSource is called: a new EventSource is being opened.
Connects == esGen' # esGen /\ esState' = "connecting"

\* C31 as stated: lastEventId changes only when an event with a non-empty id
\* is received on the current connection.
C31_ChangesOnlyOnReceive == [][lastEventId' # lastEventId => ReceivesId]_vars

\* C31 as it holds: lastEventId changes only when an event with a non-empty
\* id is received on the current connection, or when reset() clears it; every
\* connect and reconnect asks for the stream with the lastEventId of that
\* moment, that is the id most recently received since the last reset, and
\* with no parameter (0) when there is none.
C31_LastEventIdFollowsStream ==
    /\ [][lastEventId' # lastEventId =>
            \/ ReceivesId
            \/ ResetConnection /\ lastEventId' = 0]_vars
    /\ [][Connects => connX' = lastEventId /\ lastEventId' = lastEventId]_vars
    /\ [](idTask = 0 <=> lastEventId = 0)

\* C31 witness: a reconnect has asked for the stream with the id received
\* on the connection before it.
C31_Witness ==
    /\ esState \in {"connecting", "open"} /\ esGen = generation /\ generation >= 2
    /\ connX # 0 /\ connX = lastEventId /\ taskNo = 1

\* C32: the last_event_id a connection is opened with was received from the
\* stream of the task the connection is for.
C32_IdFromSameTask ==
    (esState \in {"connecting", "open"} /\ esGen = generation /\ connX # 0) => idTask = taskNo

\* No EventSource in eventSource.value, no polling interval, no retry timer.
NothingActive == esState \in {"none", "closed"} /\ pollTimer = 0 /\ retryTimer = 0

\* C33: connectionStatus is 'disconnected' whenever there is no EventSource,
\* no polling interval and no pending retry timer.
C33_IdleIsDisconnected == NothingActive => connectionStatus = "disconnected"

\* The resources of the connection store that exist.
ActiveResources ==
    {r \in {"es", "poll", "retry"} :
        \/ r = "es" /\ esState \in {"connecting", "open"}
        \/ r = "poll" /\ pollTimer # 0
        \/ r = "retry" /\ retryTimer # 0}

\* C34: at most one of EventSource, polling interval and retry timer exists.
C34_OneResource == Cardinality(ActiveResources) <= 1

\* C34 witness: each of the three has existed in turn: the EventSource
\* failed, the retry timers ran out, and the store polls alone.
C34_Witness == ActiveResources = {"poll"} /\ nFallback = 1 /\ inflight # << >>

(***************************************************************************)
(* Chat store: useChatStore                                                *)
(***************************************************************************)
\* The messages the server holds for session s.
ServerMessages(s) == [i \in 1..s |-> [k |-> "srv", n |-> s]]

\* messages.value.splice(startLen)
Splice(q, n) == IF n < Len(q) THEN SubSeq(q, 1, n) ELSE q

\* Variant: every response is taken for the latest one.
IsLatestAlways(id, counter) == TRUE

\* requestId === <kind>RequestId
IsLatest(id, counter) == id = counter

\* if (!requestAccepted) the appended messages are removed
RollsBack(accepted) == ~accepted

\* A sendMessage call between its start and its completion.
Active(c) == sends[c].at \in {"fetch", "read"}

\* An in-place change of messages.value is seen through the cache entry that
\* is the same array.
CacheSeeing(newMessages) ==
    IF aliased # 0 THEN [msgCache EXCEPT ![aliased] = newMessages] ELSE msgCache

\* abortActiveStream, as what it does to the calls, the controller and isStreaming
AbortedSends == IF abortCtl # 0 THEN [sends EXCEPT ![abortCtl].aborted = TRUE] ELSE sends

\* `if (isStreaming.value) abortActiveStream()`
AbortIfStreaming ==
    /\ sends' = IF isStreaming THEN AbortedSends ELSE sends
    /\ abortCtl' = IF isStreaming THEN 0 ELSE abortCtl
    /\ isStreaming' = FALSE

\* switchSession, createSession and loadSessions calls made so far
RequestsMade == switchSessionRequestId + createSessionRequestId + loadSessionsRequestId

UnchangedSessionLists ==
    UNCHANGED <<loadSessionsRequestId, loadReqs, sessions, sessionsLoading, sessionsError>>

InitChat ==
    /\ ChatAtRest
    /\ WrongAtRest
    /\ LogsAtRest
    /\ ConnAtRest
    /\ EventsAtRest
    /\ ParamsAtRest
    /\ HybridAtRest
    /\ TaskAtRest
    /\ PoolAtRest

\* sendMessage up to its first await: the user message and the placeholder
\* are appended, isStreaming is set, the controller is stored, fetch is sent.
SendStart ==
    /\ sessionId # 0 /\ ~isStreaming
    /\ nSends < MaxSends
    /\ nSends' = nSends + 1
    /\ messages' = messages \o <<[k |-> "user", n |-> nSends + 1], [k |-> "ai", n |-> nSends + 1]>>
    /\ msgCache' = CacheSeeing(messages')
    /\ isStreaming' = TRUE
    /\ chatError' = "none"
    /\ abortCtl' = nSends + 1
    /\ sends' = [sends EXCEPT ![nSends + 1] =
                   [at |-> "fetch", startLen |-> Len(messages), accepted |-> FALSE,
                    aborted |-> FALSE, before |-> messages]]
    /\ UNCHANGED <<sessionId, aliased, switchSessionRequestId, switchReqs,
                   createSessionRequestId, createReqs>>
    /\ UnchangedSessionLists
    /\ UNCHANGED staleIgnored
    /\ UNCHANGED nonChatVars

\* The finally clause of sendMessage, run with the message list it finds.
SendFinally(c, finalMessages) ==
    /\ isStreaming' = FALSE
    /\ abortCtl' = 0
    /\ messages' = finalMessages
    /\ msgCache' = IF sessionId # 0
                   THEN [CacheSeeing(finalMessages) EXCEPT ![sessionId] = finalMessages]
                   ELSE CacheSeeing(finalMessages)
    /\ aliased' = IF sessionId # 0 /\ aliased = sessionId THEN 0 ELSE aliased
    /\ sends' = [sends EXCEPT ![c].at = "done"]
    /\ UNCHANGED <<sessionId, nSends, switchSessionRequestId, switchReqs,
                   createSessionRequestId, createReqs>>
    /\ UnchangedSessionLists
    /\ UNCHANGED staleIgnored
    /\ UNCHANGED nonChatVars

\* fetch rejects (network error) or the response is not OK: catch, finally.
SendRejected(c) ==
    /\ sends[c].at = "fetch" /\ ~sends[c].aborted
    /\ chatError' = "send failed"
    /\ SendFinally(c, IF RollsBack(sends[c].accepted) THEN Splice(messages, sends[c].startLen)
                      ELSE messages)

\* The response is OK: requestAccepted = true, the body is read.
SendAccepted(c) ==
    /\ sends[c].at = "fetch" /\ ~sends[c].aborted
    /\ sends' = [sends EXCEPT ![c].at = "read", ![c].accepted = TRUE]
    /\ UNCHANGED <<sessionId, messages, msgCache, aliased, chatError, isStreaming, abortCtl,
                   nSends, switchSessionRequestId, switchReqs, createSessionRequestId,
                   createReqs>>
    /\ UnchangedSessionLists
    /\ UNCHANGED staleIgnored
    /\ UNCHANGED nonChatVars

\* The stream ends: a done event or the end of the body (error unchanged), or
\* an error event (error.value set); finally.
SendStreamEnds(c, withError) ==
    /\ sends[c].at = "read" /\ ~sends[c].aborted
    /\ chatError' = IF withError THEN "stream error" ELSE chatError
    /\ SendFinally(c, messages)

\* reader.read() rejects after the request was accepted: catch, finally.
SendReadFails(c) ==
    /\ sends[c].at = "read" /\ ~sends[c].aborted
    /\ chatError' = "send failed"
    /\ SendFinally(c, IF RollsBack(sends[c].accepted) THEN Splice(messages, sends[c].startLen)
                      ELSE messages)

\* The aborted call resumes with the AbortError: nothing is rolled back, no
\* error is shown; finally.
SendAbortedCompletes(c) ==
    /\ Active(c) /\ sends[c].aborted
    /\ chatError' = chatError
    /\ SendFinally(c, messages)

\* switchSession up to its await.
SwitchStart(s) ==
    /\ RequestsMade < MaxChatRequests
    /\ AbortIfStreaming
    /\ switchSessionRequestId' = switchSessionRequestId + 1
    /\ switchReqs' = switchReqs \cup {[id |-> switchSessionRequestId + 1, target |-> s,
                                       prevSessionId |-> sessionId, prevMessages |-> messages]}
    /\ sessionId' = s
    /\ messages' = msgCache[s]
    /\ aliased' = IF msgCache[s] # << >> THEN s ELSE 0
    /\ chatError' = "none"
    /\ UNCHANGED <<msgCache, nSends, createSessionRequestId, createReqs>>
    /\ UnchangedSessionLists
    /\ UNCHANGED staleIgnored
    /\ UNCHANGED nonChatVars

\* The switchSession call with this requestId, awaiting its response.
SwitchReq(id) == CHOOSE r \in switchReqs : r.id = id

\* The messages of the session arrive.
SwitchOk(id) ==
    /\ \E r \in switchReqs : r.id = id
    /\ switchReqs' = switchReqs \ {SwitchReq(id)}
    /\ IF IsLatest(id, switchSessionRequestId)
       THEN /\ staleIgnored' = staleIgnored
            /\ messages' = ServerMessages(SwitchReq(id).target)
            /\ msgCache' = [msgCache EXCEPT ![SwitchReq(id).target] =
                                               ServerMessages(SwitchReq(id).target)]
            /\ aliased' = SwitchReq(id).target
       ELSE /\ staleIgnored' = staleIgnored \cup {"switch"}
            /\ UNCHANGED <<messages, msgCache, aliased>>
    /\ UNCHANGED <<sessionId, chatError, isStreaming, abortCtl, sends, nSends,
                   switchSessionRequestId, createSessionRequestId, createReqs>>
    /\ UnchangedSessionLists
    /\ UNCHANGED nonChatVars

\* The request for the messages fails: the latest request rolls back.
SwitchFails(id) ==
    /\ \E r \in switchReqs : r.id = id
    /\ switchReqs' = switchReqs \ {SwitchReq(id)}
    /\ IF IsLatest(id, switchSessionRequestId)
       THEN /\ staleIgnored' = staleIgnored
            /\ sessionId' = SwitchReq(id).prevSessionId
            /\ messages' = SwitchReq(id).prevMessages
            /\ aliased' = 0
            /\ chatError' = "switch failed"
       ELSE /\ staleIgnored' = staleIgnored \cup {"switch"}
            /\ UNCHANGED <<sessionId, messages, aliased, chatError>>
    /\ UNCHANGED <<msgCache, isStreaming, abortCtl, sends, nSends, switchSessionRequestId,
                   createSessionRequestId, createReqs>>
    /\ UnchangedSessionLists
    /\ UNCHANGED nonChatVars

\* createSession up to its await.
CreateStart ==
    /\ RequestsMade < MaxChatRequests
    /\ AbortIfStreaming
    /\ createSessionRequestId' = createSessionRequestId + 1
    /\ createReqs' = createReqs \cup {createSessionRequestId + 1}
    /\ UNCHANGED <<sessionId, messages, msgCache, aliased, chatError, nSends,
                   switchSessionRequestId, switchReqs>>
    /\ UnchangedSessionLists
    /\ UNCHANGED staleIgnored
    /\ UNCHANGED nonChatVars

\* The new session arrives (s is its id), or the request fails and throws.
CreateResponse(id, s, ok) ==
    /\ id \in createReqs
    /\ createReqs' = createReqs \ {id}
    /\ IF ok /\ IsLatest(id, createSessionRequestId)
       THEN /\ sessionId' = s
            /\ messages' = << >>
            /\ msgCache' = [msgCache EXCEPT ![s] = << >>]
            /\ aliased' = IF aliased = s THEN 0 ELSE aliased
       ELSE UNCHANGED <<sessionId, messages, msgCache, aliased>>
    /\ staleIgnored' = IF ~IsLatest(id, createSessionRequestId)
                       THEN staleIgnored \cup {"create"} ELSE staleIgnored
    /\ UNCHANGED <<chatError, isStreaming, abortCtl, sends, nSends, switchSessionRequestId,
                   switchReqs, createSessionRequestId>>
    /\ UnchangedSessionLists
    /\ UNCHANGED nonChatVars

\* clearActiveSession (also the end of deleteSession for the active session)
ClearActiveSession ==
    /\ sessionId # 0
    /\ AbortIfStreaming
    /\ sessionId' = 0
    /\ messages' = << >>
    /\ aliased' = 0
    /\ chatError' = "none"
    /\ UNCHANGED <<msgCache, nSends, switchSessionRequestId, switchReqs,
                   createSessionRequestId, createReqs>>
    /\ UnchangedSessionLists
    /\ UNCHANGED staleIgnored
    /\ UNCHANGED nonChatVars

UnchangedChat ==
    UNCHANGED <<sessionId, messages, msgCache, aliased, chatError, isStreaming, abortCtl, sends,
                nSends, switchSessionRequestId, switchReqs, createSessionRequestId, createReqs>>

\* loadSessions up to its await.
LoadStart ==
    /\ RequestsMade < MaxChatRequests
    /\ loadSessionsRequestId' = loadSessionsRequestId + 1
    /\ loadReqs' = loadReqs \cup {loadSessionsRequestId + 1}
    /\ sessionsLoading' = TRUE
    /\ sessionsError' = "none"
    /\ sessions' = sessions
    /\ UnchangedChat
    /\ UNCHANGED staleIgnored
    /\ UNCHANGED nonChatVars

\* The list of sessions arrives.
LoadOk(id) ==
    /\ id \in loadReqs
    /\ loadReqs' = loadReqs \ {id}
    /\ IF IsLatest(id, loadSessionsRequestId)
       THEN /\ staleIgnored' = staleIgnored
            /\ sessions' = id
            /\ sessionsLoading' = FALSE
            /\ sessionsError' = sessionsError
       ELSE /\ staleIgnored' = staleIgnored \cup {"load"}
            /\ UNCHANGED <<sessions, sessionsLoading, sessionsError>>
    /\ loadSessionsRequestId' = loadSessionsRequestId
    /\ UnchangedChat
    /\ UNCHANGED nonChatVars

\* The request for the list fails or is answered with an error status.
LoadFails(id) ==
    /\ id \in loadReqs
    /\ loadReqs' = loadReqs \ {id}
    /\ IF IsLatest(id, loadSessionsRequestId)
       THEN /\ staleIgnored' = staleIgnored
            /\ sessions' = 0
            /\ sessionsLoading' = FALSE
            /\ sessionsError' = "load failed"
       ELSE /\ staleIgnored' = staleIgnored \cup {"load"}
            /\ UNCHANGED <<sessions, sessionsLoading, sessionsError>>
    /\ loadSessionsRequestId' = loadSessionsRequestId
    /\ UnchangedChat
    /\ UNCHANGED nonChatVars

NextChat ==
    \/ SendStart
    \/ \E c \in Calls : SendRejected(c)
    \/ \E c \in Calls : SendAccepted(c)
    \/ \E c \in Calls, withError \in BOOLEAN : SendStreamEnds(c, withError)
    \/ \E c \in Calls : SendReadFails(c)
    \/ \E c \in Calls : SendAbortedCompletes(c)
    \/ \E s \in Sessions : SwitchStart(s)
    \/ \E id \in RequestIds : SwitchOk(id)
    \/ \E id \in RequestIds : SwitchFails(id)
    \/ CreateStart
    \/ \E id \in RequestIds, s \in Sessions, ok \in BOOLEAN : CreateResponse(id, s, ok)
    \/ ClearActiveSession
    \/ LoadStart
    \/ \E id \in RequestIds : LoadOk(id)
    \/ \E id \in RequestIds : LoadFails(id)

SpecChat == InitChat /\ [][NextChat]_vars

(***************************************************************************)
(* Properties of the chat store                                            *)
(***************************************************************************)
\* C35: a sendMessage call that is under way and was not aborted has
\* isStreaming set and owns the abort controller: no completion of an
\* earlier, aborted call takes them from it.
C35_StreamOwnsFlags ==
    \A c \in Calls : (Active(c) /\ ~sends[c].aborted) => (isStreaming /\ abortCtl = c)

\* A response arrives for a switchSession or loadSessions request that is
\* not the latest of its kind.
SupersededSwitch ==
    \E id \in RequestIds : id # switchSessionRequestId /\ (SwitchOk(id) \/ SwitchFails(id))
SupersededLoad ==
    \E id \in RequestIds : id # loadSessionsRequestId /\ (LoadOk(id) \/ LoadFails(id))

\* C36: the response to a superseded switchSession request changes neither
\* sessionId, messages, the cache nor error; the response to a superseded
\* loadSessions request changes neither sessions, sessionsLoading nor
\* sessionsError; once the latest loadSessions request is answered the list
\* is its result or the empty list of its failure, and loading is over.
C36_SupersededResponsesInert ==
    /\ [][SupersededSwitch => UNCHANGED <<sessionId, messages, msgCache, aliased, chatError>>]_vars
    /\ [][SupersededLoad => UNCHANGED <<sessions, sessionsLoading, sessionsError>>]_vars
    /\ []((loadSessionsRequestId \notin loadReqs) =>
            (sessions \in {0, loadSessionsRequestId} /\ ~sessionsLoading))

\* C36 witness: the response to a superseded switchSession request has
\* arrived after the latest request had applied its messages, and a
\* loadSessions request was answered as well.
C36_Witness ==
    /\ "switch" \in staleIgnored /\ switchReqs = {}
    /\ sessionId # 0 /\ aliased = sessionId /\ messages = ServerMessages(sessionId)
    /\ sessions = loadSessionsRequestId /\ sessions # 0

\* C37: a sendMessage that fails before the request was accepted leaves the
\* message list as it was before the call; one that fails after acceptance
\* keeps its user message.
C37_FailedSendRestores ==
    [][\A c \in Calls :
          /\ SendRejected(c) => messages' = sends[c].before
          /\ SendReadFails(c) => \E i \in 1..Len(messages') : messages'[i] = [k |-> "user", n |-> c]
      ]_vars

(***************************************************************************)
(* useWrongStore: answers of a review and their debounced submission       *)
(***************************************************************************)

\* What setAnswer is called with: the empty string withdraws the answer.
AnswerInputs == {"", "a", "A", "B"}

\* String.prototype.toUpperCase on the inputs.
ToUpperCase(x) == IF x = "a" THEN "A" ELSE x

\* The server marks an answer against the standard answer of the question.
Marked(q, answer) == IF answer = "A" THEN "correct" ELSE "wrong"

\* submitAnswers returns at once while a submission is in flight.
SkipsSubmit == dirtyAnswers = {} \/ submitting

\* The catch block of submitAnswers: questions of the batch still 'pending'
\* fall back to 'unanswered'.
AfterCatch(byNo, batch) ==
    [q \in Questions |-> IF q \in batch /\ byNo[q] = "pending" THEN "unanswered"
                         ELSE byNo[q]]

InitWrong ==
    /\ WrongAtRest
    /\ ChatAtRest
    /\ LogsAtRest
    /\ ConnAtRest
    /\ EventsAtRest
    /\ ParamsAtRest
    /\ HybridAtRest
    /\ TaskAtRest
    /\ PoolAtRest

\* setAnswer(examId, questionNo, answer).
SetAnswer(q, answer) ==
    /\ nSets < MaxSets
    /\ nSets' = nSets + 1
    /\ IF answer = ""
       THEN /\ answersByNo' = [answersByNo EXCEPT ![q] = ""]
            /\ statusByNo' = [statusByNo EXCEPT ![q] = "unanswered"]
            /\ dirtyAnswers' = dirtyAnswers \ {q}
            /\ UNCHANGED submitTimeout
       ELSE /\ answersByNo' = [answersByNo EXCEPT ![q] = ToUpperCase(answer)]
            /\ statusByNo' = [statusByNo EXCEPT ![q] = "pending"]
            /\ dirtyAnswers' = dirtyAnswers \cup {q}
            /\ submitTimeout' = TRUE
    /\ latestAnswer' = [latestAnswer EXCEPT ![q] = ToUpperCase(answer)]
    /\ UNCHANGED <<submitting, post, srvAnswers, sentAnswer>>
    /\ UNCHANGED nonWrongVars

\* The debounce timer fires and calls submitAnswers, which runs up to its
\* fetch.
SubmitAnswers ==
    /\ submitTimeout
    /\ submitTimeout' = FALSE
    /\ IF SkipsSubmit
       THEN UNCHANGED <<statusByNo, dirtyAnswers, submitting, post, sentAnswer>>
       ELSE LET batch == dirtyAnswers
                inPayload == {q \in batch : answersByNo[q] # "" /\ statusByNo[q] # "noStandard"}
            IN  IF inPayload = {}
                THEN /\ dirtyAnswers' = dirtyAnswers \ batch
                     /\ UNCHANGED <<statusByNo, submitting, post, sentAnswer>>
                ELSE /\ statusByNo' = [q \in Questions |->
                                          IF q \in inPayload THEN "pending" ELSE statusByNo[q]]
                     /\ submitting' = TRUE
                     /\ post' = [at |-> "post", batch |-> batch,
                                 payload |-> [q \in Questions |->
                                                 IF q \in inPayload THEN answersByNo[q] ELSE ""]]
                     /\ sentAnswer' = [q \in Questions |->
                                          IF q \in inPayload THEN answersByNo[q]
                                          ELSE sentAnswer[q]]
                     /\ UNCHANGED dirtyAnswers
    /\ UNCHANGED <<answersByNo, srvAnswers, latestAnswer, nSets>>
    /\ UNCHANGED nonWrongVars

\* The POST is answered 200: the marks are applied, the whole batch leaves
\* the dirty set, and fetchWrongQuestions is awaited.
PostOk ==
    /\ post.at = "post"
    /\ srvAnswers' = [q \in Questions |->
                         IF post.payload[q] # "" THEN post.payload[q] ELSE srvAnswers[q]]
    /\ statusByNo' = [q \in Questions |->
                         IF post.payload[q] # "" THEN Marked(q, post.payload[q])
                         ELSE statusByNo[q]]
    /\ dirtyAnswers' = dirtyAnswers \ post.batch
    /\ post' = [post EXCEPT !.at = "fetch"]
    /\ UNCHANGED <<answersByNo, submitTimeout, submitting, latestAnswer, sentAnswer, nSets>>
    /\ UNCHANGED nonWrongVars

\* The POST fails: catch and finally.
PostFails ==
    /\ post.at = "post"
    /\ statusByNo' = AfterCatch(statusByNo, post.batch)
    /\ submitting' = FALSE
    /\ post' = NoPost
    /\ UNCHANGED <<answersByNo, dirtyAnswers, submitTimeout, srvAnswers, latestAnswer,
                   sentAnswer, nSets>>
    /\ UNCHANGED nonWrongVars

\* fetchWrongQuestions returns the recorded answers, which overwrite the
\* answers and marks of their questions; then finally.
FetchOk ==
    /\ post.at = "fetch"
    /\ answersByNo' = [q \in Questions |->
                          IF srvAnswers[q] # "" THEN srvAnswers[q] ELSE answersByNo[q]]
    /\ statusByNo' = [q \in Questions |->
                         IF srvAnswers[q] # "" THEN Marked(q, srvAnswers[q])
                         ELSE statusByNo[q]]
    /\ submitting' = FALSE
    /\ post' = NoPost
    /\ UNCHANGED <<dirtyAnswers, submitTimeout, srvAnswers, latestAnswer, sentAnswer, nSets>>
    /\ UNCHANGED nonWrongVars

\* fetchWrongQuestions throws into the catch of submitAnswers; then finally.
FetchFails ==
    /\ post.at = "fetch"
    /\ statusByNo' = AfterCatch(statusByNo, post.batch)
    /\ submitting' = FALSE
    /\ post' = NoPost
    /\ UNCHANGED <<answersByNo, dirtyAnswers, submitTimeout, srvAnswers, latestAnswer,
                   sentAnswer, nSets>>
    /\ UNCHANGED nonWrongVars

NextWrong ==
    \/ \E q \in Questions, answer \in AnswerInputs : SetAnswer(q, answer)
    \/ SubmitAnswers
    \/ PostOk
    \/ PostFails
    \/ FetchOk
    \/ FetchFails

SpecWrong == InitWrong /\ [][NextWrong]_vars

\* A pending timer fires and a request is answered.
FairWrong ==
    /\ WF_vars(SubmitAnswers)
    /\ WF_vars(PostOk \/ PostFails)
    /\ WF_vars(FetchOk \/ FetchFails)

SpecWrongFair == SpecWrong /\ FairWrong

(***************************************************************************)
(* Properties of the review store                                          *)
(***************************************************************************)

\* C38: every answer given to setAnswer is eventually put into a request
\* with its latest value, and its question does not stay 'pending': once the
\* user has stopped answering, each question with an answer has had exactly
\* that answer sent and is no longer 'pending'.
C38_AnswersEventuallySent ==
    <>[](\A q \in Questions :
            latestAnswer[q] # "" =>
                (sentAnswer[q] = latestAnswer[q] /\ statusByNo[q] # "pending"))

(***************************************************************************)
(* useLogsStore: the log list of the dashboard                             *)
(***************************************************************************)

MAX_LOGS == 100

\* The ids a log event or a polled log can carry: the next one the server
\* publishes, or one it has published before (a replay after a reconnect, an
\* overlapping poll).
ServedIds == 1..MaxServed

\* The loop `while (logs.value.length > MAX_LOGS) logs.value.shift()`.
Shifted(q) == IF Len(q) > MAX_LOGS THEN SubSeq(q, Len(q) - MAX_LOGS + 1, Len(q)) ELSE q

\* The entries the loop removes.
ShiftedOut(q) == IF Len(q) > MAX_LOGS THEN {q[i] : i \in 1..(Len(q) - MAX_LOGS)} ELSE {}

\* appendLog on a list and a set of seen ids.
Appended(q, seen, id) == IF id \notin seen THEN Append(q, id) ELSE q

InitLogs ==
    /\ LogsAtRest
    /\ ChatAtRest
    /\ WrongAtRest
    /\ ConnAtRest
    /\ EventsAtRest
    /\ ParamsAtRest
    /\ HybridAtRest
    /\ TaskAtRest
    /\ PoolAtRest

\* addLog(message, type): a local entry with a fresh id.
AddLog ==
    /\ nAdds < MaxAdds
    /\ nAdds' = nAdds + 1
    /\ LET pushed == Append(logs, 0 - (nAdds + 1))
       IN  /\ logs' = Shifted(pushed)
           /\ seenIds' = seenIds \ ShiftedOut(pushed)
    /\ UNCHANGED nServed
    /\ UNCHANGED nonLogVars

\* appendLog(log), called by the log listener of the event stream.
AppendLog(id) ==
    /\ id \in {1, nServed, nServed + 1}
    /\ logs' = Appended(logs, seenIds, id)
    /\ seenIds' = seenIds \cup {id}
    /\ nServed' = IF id > nServed THEN id ELSE nServed
    /\ UNCHANGED nAdds
    /\ UNCHANGED nonLogVars

\* appendLogs(newLogs) with two consecutive logs.
AppendLogs(id) ==
    /\ id \in {nServed, nServed + 1}
    /\ id + 1 \in ServedIds
    /\ logs' = Appended(Appended(logs, seenIds, id), seenIds \cup {id}, id + 1)
    /\ seenIds' = seenIds \cup {id, id + 1}
    /\ nServed' = id + 1
    /\ UNCHANGED nAdds
    /\ UNCHANGED nonLogVars

NextLogs ==
    \/ AddLog
    \/ \E id \in ServedIds : AppendLog(id)
    \/ \E id \in ServedIds : AppendLogs(id)

SpecLogs == InitLogs /\ [][NextLogs]_vars

(***************************************************************************)
(* Properties of the logs store                                            *)
(***************************************************************************)

\* C39: the log list never holds more than MAX_LOGS entries, whatever
\* sequence of addLog, appendLog and appendLogs has been called.
C39_LogsBounded == Len(logs) <= MAX_LOGS

====
